---- MODULE Spec2Model ----
(***************************************************************************)
(* Spa controller firmware (ESP32), two builds of the repository:          *)
(*   "schedule"  - Spa_Controller.ino: three schedule slots per device,    *)
(*                 manual override over HTTP, configuration in EEPROM;     *)
(*   "two_relay" - the simple two-relay build: pump and heater are         *)
(*                 commanded over MQTT and their states published.         *)
(*   "thermostat" - the advanced build, whose relay state evaluator is    *)
(*                 taken from its specification: its source is not among  *)
(*                 the files of the two builds above.                      *)
(* A device runs one build; `variant` says which.  The globals the two     *)
(* builds share by name (circulation_pump_state, heater_state, the two     *)
(* relay pins) are the same variables here.                                *)
(*                                                                         *)
(* Every handler is a function from the machine state (the record M of all *)
(* variables) to the machine state after the handler returned; an action   *)
(* is one handler run to completion on inputs drawn from a bounded set.    *)
(***************************************************************************)
EXTENDS Integers, Sequences, FiniteSets, TLC

VARIABLES
  variant,                     \* which build is flashed
  phase,                       \* "reset": setup() has not run yet; "running": loop() is being called
  millis,                      \* millis(): ms since the last reset
  wifi_status,                 \* WiFi.status()
  gpio,                        \* output level of the relay pins
  circulation_pump_state,      \* requested pump state
  heater_state,                \* requested heater state
  \* --- schedule build ---
  manual_override,
  in_config_mode,
  controller_config,           \* the ControllerConfig in RAM
  EEPROM,                      \* persistent store: the record at address 0, the boot counter byte
  boot_time,
  reset_counter_cleared,
  last_wifi_reconnect_attempt,
  pc,                          \* where the loop task stands: "idle" between two handlers,
                               \* "handle_schedule" inside the slot loop of handle_schedule()
  slot_i,                      \* handle_schedule(): the loop variable i
  http_request,                \* handle_schedule(): the arguments of the request being served
  \* --- two-relay build ---
  mqtt_connected,              \* client.connected()
  subscriptions,               \* topics the client is subscribed to
  last_mqtt_publish_time,
  last_reconnect_attempt_time,
  received,                    \* arguments of the last mqtt_callback: <<topic, payload>>, or <<>>
  published,                   \* messages published by the handler that ran last, in order
  \* --- both builds ---
  connect_attempts,            \* millis() at each reconnect attempt since the reset, in order:
                               \* WiFi.begin() in loop() (schedule), client.connect() (two-relay)
  page,                        \* schedule build: the state-dependent lines of the status
                               \* page last sent by handle_root()
  boot_streak,                 \* schedule build, bookkeeping: the boots since the counter byte
                               \* was last written 0 by loop() or by a wipe (boots), the byte
                               \* the first of them read (base), and the same two at the
                               \* last wipe (wiped_base, wiped_on; wiped_on = 0: no wipe yet)
  \* --- thermostat build ---
  controls,                    \* the control inputs
  relays                       \* the relay outputs of the last evaluation

vars == <<variant, phase, millis, wifi_status, gpio, circulation_pump_state, heater_state,
          manual_override, in_config_mode, controller_config, EEPROM, boot_time,
          reset_counter_cleared, last_wifi_reconnect_attempt, pc, slot_i, http_request,
          mqtt_connected, subscriptions, last_mqtt_publish_time,
          last_reconnect_attempt_time, received, published, connect_attempts,
          page, boot_streak, controls, relays>>

----------------------------------------------------------------------------
(* Bounds of the model *)

\* at most this many of the six slots of a posted schedule form are not "00:00"-"00:00"
MaxSetSlots == 1

\* MQTT payloads over PayloadAlphabet are at most this long
MaxPayloadLen == 2

\* millis() advances in steps of TickMs up to MaxTicks steps after a reset
MaxTicks == 3

----------------------------------------------------------------------------
(* Program constants *)

CIRCULATION_PUMP_PIN == 13
HEATER_PIN == 12
LOW == FALSE
HIGH == TRUE

EEPROM_SIZE == 256
CONFIG_EEPROM_ADDR == 0
RESET_EEPROM_ADDR == EEPROM_SIZE - 1
RESET_CYCLE_TARGET == 5
SUCCESSFUL_BOOT_TIMEOUT_MS == 20000
WIFI_RECONNECT_INTERVAL == 30000

MQTT_PUBLISH_INTERVAL == 60000
RECONNECT_INTERVAL == 30000

MQTT_AVAILABILITY_TOPIC == "zado_spa/available"
MQTT_CIRCULATION_PUMP_STATE_TOPIC == "zado_spa/circulation_pump/state"
MQTT_CIRCULATION_PUMP_SET_TOPIC == "zado_spa/circulation_pump/set"
MQTT_HEATER_STATE_TOPIC == "zado_spa/heater/state"
MQTT_HEATER_SET_TOPIC == "zado_spa/heater/set"
MQTT_DEBUG_TOPIC == "zado_spa/debug"

\* the validity marker of ControllerConfig, a uint32_t written in hex
\* (it does not fit the model checker's integers; only equality is used)
MAGIC_MARKER == "DEADBEEF"

WL_CONNECTED == "WL_CONNECTED"
WL_DISCONNECTED == "WL_DISCONNECTED"

----------------------------------------------------------------------------
(* Strings are sequences of one-character strings. *)

Digits == {"0", "1", "2", "3", "4", "5", "6", "7", "8", "9"}

IsDigit(c) == c \in Digits

DigitValue(c) ==
  CASE c = "0" -> 0 [] c = "1" -> 1 [] c = "2" -> 2 [] c = "3" -> 3 [] c = "4" -> 4
    [] c = "5" -> 5 [] c = "6" -> 6 [] c = "7" -> 7 [] c = "8" -> 8 [] c = "9" -> 9

IsSpace(c) == c = " "

\* String::substring(left, right): characters left..right-1, clipped to the string
substring(s, left, right) ==
  LET lo == IF left > right THEN right ELSE left
      hi0 == IF left > right THEN left ELSE right
      hi == IF hi0 > Len(s) THEN Len(s) ELSE hi0
  IN IF lo >= Len(s) THEN <<>> ELSE SubSeq(s, lo + 1, hi)

\* the leading run of digits of s, as a number (0 when there is none)
RECURSIVE DigitRun(_, _)
DigitRun(s, acc) ==
  IF s = <<>> \/ ~IsDigit(Head(s)) THEN acc
  ELSE DigitRun(Tail(s), acc * 10 + DigitValue(Head(s)))

RECURSIVE SkipSpace(_)
SkipSpace(s) == IF s # <<>> /\ IsSpace(Head(s)) THEN SkipSpace(Tail(s)) ELSE s

\* String::toInt() is atol(): leading blanks, an optional sign, then digits; 0 otherwise
toInt(s) ==
  LET t == SkipSpace(s)
  IN IF t = <<>> THEN 0
     ELSE IF Head(t) = "-" THEN 0 - DigitRun(Tail(t), 0)
     ELSE IF Head(t) = "+" THEN DigitRun(Tail(t), 0)
     ELSE DigitRun(t, 0)

LowerCase == <<"a","b","c","d","e","f","g","h","i","j","k","l","m",
               "n","o","p","q","r","s","t","u","v","w","x","y","z">>
UpperCase == <<"A","B","C","D","E","F","G","H","I","J","K","L","M",
               "N","O","P","Q","R","S","T","U","V","W","X","Y","Z">>

toupper(c) ==
  IF \E i \in 1..26 : LowerCase[i] = c
  THEN UpperCase[CHOOSE i \in 1..26 : LowerCase[i] = c]
  ELSE c

bool_to_on_off(state) == IF state THEN <<"O", "N">> ELSE <<"O", "F", "F">>

----------------------------------------------------------------------------
(* Schedule build: data structures *)

Schedule(sh, sm, eh, em) ==
  [start_hour |-> sh, start_minute |-> sm, end_hour |-> eh, end_minute |-> em]

WifiConfig(ssid, password) == [ssid |-> ssid, password |-> password]

ControllerConfig(marker, wifi, pump, heater) ==
  [magic_marker |-> marker, wifi |-> wifi, pump_schedules |-> pump, heater_schedules |-> heater]

\* the three slots of a device are indexed 0..2
SlotIndex == 0..2

Slots(s0, s1, s2) == [i \in SlotIndex |-> IF i = 0 THEN s0 ELSE IF i = 1 THEN s1 ELSE s2]

\* the global controller_config before setup(): the marker's initialiser, zeroed schedules
InitialConfig ==
  ControllerConfig(MAGIC_MARKER, WifiConfig(<<>>, <<>>),
                   Slots(Schedule(0, 0, 0, 0), Schedule(0, 0, 0, 0), Schedule(0, 0, 0, 0)),
                   Slots(Schedule(0, 0, 0, 0), Schedule(0, 0, 0, 0), Schedule(0, 0, 0, 0)))

\* the record of a store whose 256 bytes are all 0 (after clear_eeprom_and_restart)
WipedRecord ==
  ControllerConfig("00000000", WifiConfig(<<>>, <<>>),
                   Slots(Schedule(0, 0, 0, 0), Schedule(0, 0, 0, 0), Schedule(0, 0, 0, 0)),
                   Slots(Schedule(0, 0, 0, 0), Schedule(0, 0, 0, 0), Schedule(0, 0, 0, 0)))

\* the record of a store never written: every byte 0xFF, so every int is -1
ErasedRecord ==
  ControllerConfig("FFFFFFFF", WifiConfig(<<"?">>, <<"?">>),
                   Slots(Schedule(-1, -1, -1, -1), Schedule(-1, -1, -1, -1), Schedule(-1, -1, -1, -1)),
                   Slots(Schedule(-1, -1, -1, -1), Schedule(-1, -1, -1, -1), Schedule(-1, -1, -1, -1)))

HomeWifi == WifiConfig(<<"s", "p", "a">>, <<"p", "w">>)

\* a record saved earlier by this firmware: credentials, a pump slot with start = end
\* other than 00:00 and an overnight heater slot
SavedRecord ==
  ControllerConfig(MAGIC_MARKER, HomeWifi,
                   Slots(Schedule(0, 0, 0, 0), Schedule(8, 15, 8, 15), Schedule(0, 0, 0, 0)),
                   Slots(Schedule(0, 0, 0, 0), Schedule(0, 0, 0, 0), Schedule(22, 0, 6, 0)))

\* the same record with one bit of the marker flipped
CorruptRecord == [SavedRecord EXCEPT !.magic_marker = "DEADBEEE"]

\* what the store may hold at the first power-on
InitialRecords == {ErasedRecord, WipedRecord, SavedRecord, CorruptRecord}
InitialBootCounters == 0..(EEPROM_SIZE - 1)

----------------------------------------------------------------------------
(* The machine state as one record, and its write-back *)

M ==
  [variant |-> variant, phase |-> phase, millis |-> millis, wifi_status |-> wifi_status,
   gpio |-> gpio, circulation_pump_state |-> circulation_pump_state,
   heater_state |-> heater_state, manual_override |-> manual_override,
   in_config_mode |-> in_config_mode, controller_config |-> controller_config,
   EEPROM |-> EEPROM, boot_time |-> boot_time,
   reset_counter_cleared |-> reset_counter_cleared,
   last_wifi_reconnect_attempt |-> last_wifi_reconnect_attempt,
   mqtt_connected |-> mqtt_connected, subscriptions |-> subscriptions,
   last_mqtt_publish_time |-> last_mqtt_publish_time,
   last_reconnect_attempt_time |-> last_reconnect_attempt_time,
   received |-> received, published |-> published,
   pc |-> pc, slot_i |-> slot_i, http_request |-> http_request,
   connect_attempts |-> connect_attempts, page |-> page, boot_streak |-> boot_streak,
   controls |-> controls, relays |-> relays]

Becomes(m) ==
  /\ variant' = m.variant
  /\ phase' = m.phase
  /\ millis' = m.millis
  /\ wifi_status' = m.wifi_status
  /\ gpio' = m.gpio
  /\ circulation_pump_state' = m.circulation_pump_state
  /\ heater_state' = m.heater_state
  /\ manual_override' = m.manual_override
  /\ in_config_mode' = m.in_config_mode
  /\ controller_config' = m.controller_config
  /\ EEPROM' = m.EEPROM
  /\ boot_time' = m.boot_time
  /\ reset_counter_cleared' = m.reset_counter_cleared
  /\ last_wifi_reconnect_attempt' = m.last_wifi_reconnect_attempt
  /\ mqtt_connected' = m.mqtt_connected
  /\ subscriptions' = m.subscriptions
  /\ last_mqtt_publish_time' = m.last_mqtt_publish_time
  /\ last_reconnect_attempt_time' = m.last_reconnect_attempt_time
  /\ received' = m.received
  /\ published' = m.published
  /\ pc' = m.pc
  /\ slot_i' = m.slot_i
  /\ http_request' = m.http_request
  /\ connect_attempts' = m.connect_attempts
  /\ page' = m.page
  /\ boot_streak' = m.boot_streak
  /\ controls' = m.controls
  /\ relays' = m.relays

\* the globals as their initialisers leave them, and the chip's reset state: relay pins
\* not driven, WiFi down, no MQTT session, millis() at 0.  The store keeps its contents.
reset(m) ==
  [m EXCEPT !.phase = "reset", !.millis = 0, !.wifi_status = WL_DISCONNECTED,
            !.gpio = [p \in {CIRCULATION_PUMP_PIN, HEATER_PIN} |-> LOW],
            !.circulation_pump_state = FALSE, !.heater_state = FALSE,
            !.manual_override = FALSE, !.in_config_mode = FALSE,
            !.controller_config = InitialConfig,
            !.boot_time = 0, !.reset_counter_cleared = FALSE,
            !.last_wifi_reconnect_attempt = 0,
            !.mqtt_connected = FALSE, !.subscriptions = {},
            !.last_mqtt_publish_time = 0, !.last_reconnect_attempt_time = 0,
            !.received = <<>>, !.published = <<>>,
            !.pc = "idle", !.slot_i = 0, !.http_request = <<>>, !.connect_attempts = <<>>]

digitalWrite(m, pin, level) == [m EXCEPT !.gpio[pin] = level]

digitalRead(m, pin) == m.gpio[pin]

\* no boot counted yet, no wipe yet
NoStreak == [base |-> 0, boots |-> 0, wiped_base |-> 0, wiped_on |-> 0]

\* no status page sent yet
NoPage == [pump |-> <<>>, heater |-> <<>>, override_notice |-> FALSE]

----------------------------------------------------------------------------
(* Schedule build: persistent storage *)

save_config_to_eeprom(m) ==
  [m EXCEPT !.EEPROM[CONFIG_EEPROM_ADDR] = m.controller_config]

\* the defaults are installed and not saved
load_config_from_eeprom_no_save(m) ==
  LET m1 == [m EXCEPT !.controller_config = m.EEPROM[CONFIG_EEPROM_ADDR]]
  IN IF m1.controller_config.magic_marker # MAGIC_MARKER
     THEN [m1 EXCEPT !.controller_config.magic_marker = MAGIC_MARKER,
                     !.controller_config.wifi.ssid = <<>>,
                     !.controller_config.wifi.password = <<>>,
                     !.controller_config.pump_schedules[0] = Schedule(8, 0, 10, 0),
                     !.controller_config.pump_schedules[1] = Schedule(0, 0, 0, 0),
                     !.controller_config.pump_schedules[2] = Schedule(0, 0, 0, 0),
                     !.controller_config.heater_schedules[0] = Schedule(8, 15, 9, 45),
                     !.controller_config.heater_schedules[1] = Schedule(0, 0, 0, 0),
                     !.controller_config.heater_schedules[2] = Schedule(0, 0, 0, 0)]
     ELSE m1

load_config_from_eeprom(m) ==
  LET m1 == [m EXCEPT !.controller_config = m.EEPROM[CONFIG_EEPROM_ADDR]]
  IN IF m1.controller_config.magic_marker # MAGIC_MARKER
     THEN save_config_to_eeprom(
            [m1 EXCEPT !.controller_config.magic_marker = MAGIC_MARKER,
                       !.controller_config.wifi.ssid = <<>>,
                       !.controller_config.wifi.password = <<>>,
                       !.controller_config.pump_schedules[0] = Schedule(8, 0, 10, 0),
                       !.controller_config.pump_schedules[1] = Schedule(0, 0, 0, 0),
                       !.controller_config.pump_schedules[2] = Schedule(0, 0, 0, 0),
                       !.controller_config.heater_schedules[0] = Schedule(8, 15, 9, 45),
                       !.controller_config.heater_schedules[1] = Schedule(0, 0, 0, 0),
                       !.controller_config.heater_schedules[2] = Schedule(0, 0, 0, 0)])
     ELSE m1

\* every byte of the store written 0, then ESP.restart()
clear_eeprom_and_restart(m) ==
  reset([m EXCEPT !.EEPROM = [a \in {CONFIG_EEPROM_ADDR, RESET_EEPROM_ADDR} |->
                                IF a = CONFIG_EEPROM_ADDR THEN WipedRecord ELSE 0]])

----------------------------------------------------------------------------
(* Schedule build: relay logic *)

\* the pump follows its own request only
update_relays_unforced(m) ==
  digitalWrite(digitalWrite(m, CIRCULATION_PUMP_PIN, m.circulation_pump_state),
               HEATER_PIN, m.heater_state)

update_relays(m) ==
  LET final_pump_state == IF m.heater_state THEN TRUE ELSE m.circulation_pump_state
      final_heater_state == m.heater_state
  IN digitalWrite(digitalWrite(m, CIRCULATION_PUMP_PIN, final_pump_state),
                  HEATER_PIN, final_heater_state)

\* no test for start = end
is_active_no_skip(slot, t) ==
  LET start_time == slot.start_hour * 60 + slot.start_minute
      end_time == slot.end_hour * 60 + slot.end_minute
  IN IF start_time < end_time THEN t >= start_time /\ t < end_time
     ELSE t >= start_time \/ t < end_time

\* the overnight window closed at its end
is_active_overnight_end_inclusive(slot, t) ==
  LET start_time == slot.start_hour * 60 + slot.start_minute
      end_time == slot.end_hour * 60 + slot.end_minute
  IN IF start_time = end_time THEN FALSE
     ELSE IF start_time < end_time THEN t >= start_time /\ t < end_time
     ELSE t >= start_time \/ t <= end_time

\* the same-day window closed at its end
is_active_same_day_end_inclusive(slot, t) ==
  LET start_time == slot.start_hour * 60 + slot.start_minute
      end_time == slot.end_hour * 60 + slot.end_minute
  IN IF start_time = end_time THEN FALSE
     ELSE IF start_time < end_time THEN t >= start_time /\ t <= end_time
     ELSE t >= start_time \/ t < end_time

\* loop(), the body of one pass of the slot loop: is this slot active at minute t
is_active(slot, t) ==
  LET start_time == slot.start_hour * 60 + slot.start_minute
      end_time == slot.end_hour * 60 + slot.end_minute
  IN IF start_time = end_time THEN FALSE
     ELSE IF start_time < end_time THEN t >= start_time /\ t < end_time
     ELSE t >= start_time \/ t < end_time

\* the slot loop, one pass short
RECURSIVE should_be_on_two_slots(_, _, _)
should_be_on_two_slots(schedules, t, i) ==
  IF i >= 2 THEN FALSE
  ELSE IF is_active(schedules[i], t) THEN TRUE
  ELSE should_be_on_two_slots(schedules, t, i + 1)

\* loop(), the slot loop: i runs 0, 1, 2 and stops at the first active slot
RECURSIVE should_be_on(_, _, _)
should_be_on(schedules, t, i) ==
  IF i >= 3 THEN FALSE
  ELSE IF is_active(schedules[i], t) THEN TRUE
  ELSE should_be_on(schedules, t, i + 1)

\* both requests taken from the pump slots
evaluate_schedules_pump_only(m, current_hour, current_minute) ==
  LET t == current_hour * 60 + current_minute
  IN [m EXCEPT !.circulation_pump_state = should_be_on(m.controller_config.pump_schedules, t, 0),
               !.heater_state = should_be_on(m.controller_config.pump_schedules, t, 0)]

\* loop(), the block under !manual_override
evaluate_schedules(m, current_hour, current_minute) ==
  LET current_time_in_minutes == current_hour * 60 + current_minute
      t == current_time_in_minutes
  IN [m EXCEPT !.circulation_pump_state = should_be_on(m.controller_config.pump_schedules, t, 0),
               !.heater_state = should_be_on(m.controller_config.heater_schedules, t, 0)]

----------------------------------------------------------------------------
(* Schedule build: setup(), loop() and the HTTP handlers *)

\* link: whether the station associates within the 20 polls of connect_to_wifi()
connect_to_wifi(m, link) ==
  IF Len(m.controller_config.wifi.ssid) = 0 THEN m
  ELSE [m EXCEPT !.wifi_status = IF link THEN WL_CONNECTED ELSE WL_DISCONNECTED]

\* the wipe at a counter above the target only
setup_schedule_above_target(m, link) ==
  LET boot_counter == (m.EEPROM[RESET_EEPROM_ADDR] + 1) % 256
  IN IF boot_counter > RESET_CYCLE_TARGET
     THEN clear_eeprom_and_restart(m)
     ELSE LET m1 == [m EXCEPT !.EEPROM[RESET_EEPROM_ADDR] = boot_counter,
                              !.boot_time = m.millis]
              m2 == digitalWrite(digitalWrite(m1, CIRCULATION_PUMP_PIN, LOW), HEATER_PIN, LOW)
              m3 == connect_to_wifi(load_config_from_eeprom(m2), link)
          IN [m3 EXCEPT !.in_config_mode = (m3.wifi_status # WL_CONNECTED),
                        !.phase = "running"]

\* the counter held in an int: no wrap at 255
setup_schedule_int_counter(m, link) ==
  LET boot_counter == m.EEPROM[RESET_EEPROM_ADDR] + 1
  IN IF boot_counter >= RESET_CYCLE_TARGET
     THEN clear_eeprom_and_restart(m)
     ELSE LET m1 == [m EXCEPT !.EEPROM[RESET_EEPROM_ADDR] = boot_counter,
                              !.boot_time = m.millis]
              m2 == digitalWrite(digitalWrite(m1, CIRCULATION_PUMP_PIN, LOW), HEATER_PIN, LOW)
              m3 == connect_to_wifi(load_config_from_eeprom(m2), link)
          IN [m3 EXCEPT !.in_config_mode = (m3.wifi_status # WL_CONNECTED),
                        !.phase = "running"]

setup_schedule(m, link) ==
  LET boot_counter == (m.EEPROM[RESET_EEPROM_ADDR] + 1) % 256
  IN IF boot_counter >= RESET_CYCLE_TARGET
     THEN clear_eeprom_and_restart(m)
     ELSE LET m1 == [m EXCEPT !.EEPROM[RESET_EEPROM_ADDR] = boot_counter,
                              !.boot_time = m.millis]
              m2 == digitalWrite(digitalWrite(m1, CIRCULATION_PUMP_PIN, LOW), HEATER_PIN, LOW)
              m3 == connect_to_wifi(load_config_from_eeprom(m2), link)
          IN [m3 EXCEPT !.in_config_mode = (m3.wifi_status # WL_CONNECTED),
                        !.phase = "running"]

\* nothing is evaluated and no relay written while WiFi is down
loop_schedule_idle_offline(m, current_hour, current_minute) ==
  LET m1 == IF ~m.reset_counter_cleared /\ m.millis - m.boot_time > SUCCESSFUL_BOOT_TIMEOUT_MS
            THEN [m EXCEPT !.EEPROM[RESET_EEPROM_ADDR] = 0, !.reset_counter_cleared = TRUE]
            ELSE m
      m2 == IF m1.wifi_status # WL_CONNECTED
               /\ m1.millis - m1.last_wifi_reconnect_attempt > WIFI_RECONNECT_INTERVAL
            THEN [m1 EXCEPT !.connect_attempts = Append(m1.connect_attempts, m1.millis),
                            !.last_wifi_reconnect_attempt = m1.millis]
            ELSE m1
      m3 == IF ~m2.manual_override
            THEN evaluate_schedules(m2, current_hour, current_minute)
            ELSE m2
  IN IF m1.in_config_mode THEN m1
     ELSE IF m1.wifi_status # WL_CONNECTED THEN m2 ELSE update_relays(m3)

\* config mode does not keep loop() from the schedules and the relays
loop_schedule_in_any_mode(m, current_hour, current_minute) ==
  LET m1 == IF ~m.reset_counter_cleared /\ m.millis - m.boot_time > SUCCESSFUL_BOOT_TIMEOUT_MS
            THEN [m EXCEPT !.EEPROM[RESET_EEPROM_ADDR] = 0, !.reset_counter_cleared = TRUE]
            ELSE m
      m2 == IF m1.wifi_status # WL_CONNECTED
               /\ m1.millis - m1.last_wifi_reconnect_attempt > WIFI_RECONNECT_INTERVAL
            THEN [m1 EXCEPT !.connect_attempts = Append(m1.connect_attempts, m1.millis),
                            !.last_wifi_reconnect_attempt = m1.millis]
            ELSE m1
      m3 == IF ~m2.manual_override
            THEN evaluate_schedules(m2, current_hour, current_minute)
            ELSE m2
  IN update_relays(m3)

\* the schedules are evaluated whether manual override is on or off
loop_schedule_ignores_override(m, current_hour, current_minute) ==
  LET m1 == IF ~m.reset_counter_cleared /\ m.millis - m.boot_time > SUCCESSFUL_BOOT_TIMEOUT_MS
            THEN [m EXCEPT !.EEPROM[RESET_EEPROM_ADDR] = 0, !.reset_counter_cleared = TRUE]
            ELSE m
      m2 == IF m1.wifi_status # WL_CONNECTED
               /\ m1.millis - m1.last_wifi_reconnect_attempt > WIFI_RECONNECT_INTERVAL
            THEN [m1 EXCEPT !.connect_attempts = Append(m1.connect_attempts, m1.millis),
                            !.last_wifi_reconnect_attempt = m1.millis]
            ELSE m1
      m3 == evaluate_schedules(m2, current_hour, current_minute)
  IN IF m1.in_config_mode THEN m1 ELSE update_relays(m3)

loop_schedule(m, current_hour, current_minute) ==
  LET m1 == IF ~m.reset_counter_cleared /\ m.millis - m.boot_time > SUCCESSFUL_BOOT_TIMEOUT_MS
            THEN [m EXCEPT !.EEPROM[RESET_EEPROM_ADDR] = 0, !.reset_counter_cleared = TRUE]
            ELSE m
      m2 == IF m1.wifi_status # WL_CONNECTED
               /\ m1.millis - m1.last_wifi_reconnect_attempt > WIFI_RECONNECT_INTERVAL
            THEN [m1 EXCEPT !.connect_attempts = Append(m1.connect_attempts, m1.millis),
                            !.last_wifi_reconnect_attempt = m1.millis]
            ELSE m1
      m3 == IF ~m2.manual_override
            THEN evaluate_schedules(m2, current_hour, current_minute)
            ELSE m2
  IN IF m1.in_config_mode THEN m1 ELSE update_relays(m3)

\* update_relays() statement by statement: its first digitalWrite(), the pump pin
update_relays_pump_write(m) ==
  LET final_pump_state == IF m.heater_state THEN TRUE ELSE m.circulation_pump_state
  IN [digitalWrite(m, CIRCULATION_PUMP_PIN, final_pump_state) EXCEPT !.pc = "update_relays"]

\* its second digitalWrite(), the heater pin, and the return
update_relays_heater_write(m) ==
  LET final_heater_state == m.heater_state
  IN [digitalWrite(m, HEATER_PIN, final_heater_state) EXCEPT !.pc = "idle"]

\* loop() up to the first digitalWrite() of update_relays(); a pass in config mode has
\* no such write and runs to its end
loop_schedule_pump_write(m, current_hour, current_minute) ==
  LET m1 == IF ~m.reset_counter_cleared /\ m.millis - m.boot_time > SUCCESSFUL_BOOT_TIMEOUT_MS
            THEN [m EXCEPT !.EEPROM[RESET_EEPROM_ADDR] = 0, !.reset_counter_cleared = TRUE]
            ELSE m
      m2 == IF m1.wifi_status # WL_CONNECTED
               /\ m1.millis - m1.last_wifi_reconnect_attempt > WIFI_RECONNECT_INTERVAL
            THEN [m1 EXCEPT !.connect_attempts = Append(m1.connect_attempts, m1.millis),
                            !.last_wifi_reconnect_attempt = m1.millis]
            ELSE m1
      m3 == IF ~m2.manual_override
            THEN evaluate_schedules(m2, current_hour, current_minute)
            ELSE m2
  IN IF m1.in_config_mode THEN m1 ELSE update_relays_pump_write(m3)

\* bookkeeping of a setup() that took m to after: one more boot in the streak; a call of
\* clear_eeprom_and_restart() is noted and starts a new streak
boot_counted(m, after) ==
  LET base == IF m.boot_streak.boots = 0 THEN m.EEPROM[RESET_EEPROM_ADDR]
              ELSE m.boot_streak.base
  IN IF after.phase = "reset"
     THEN [after EXCEPT !.boot_streak = [base |-> 0, boots |-> 0, wiped_base |-> base,
                                         wiped_on |-> m.boot_streak.boots + 1]]
     ELSE [after EXCEPT !.boot_streak.base = base,
                        !.boot_streak.boots = m.boot_streak.boots + 1]

\* bookkeeping of a loop() pass that took m to after: the pass that writes the counter
\* byte 0 starts a new streak
clear_counted(m, after) ==
  IF after.reset_counter_cleared /\ ~m.reset_counter_cleared
  THEN [after EXCEPT !.boot_streak.base = 0, !.boot_streak.boots = 0]
  ELSE after

\* WebServer::arg(name): the argument's value, the empty string when it is absent
arg(request, name) == IF name \in DOMAIN request THEN request[name] ELSE <<>>

hasArg(request, name) == name \in DOMAIN request

\* 'schedule' is looked at first, so that a 'pump' or 'heater' argument wins over it
handle_manual_control_schedule_first(m, request) ==
  LET m1 == [m EXCEPT !.manual_override = FALSE]
      m2 == IF hasArg(request, "pump")
            THEN [m1 EXCEPT !.circulation_pump_state = (toInt(arg(request, "pump")) = 1),
                            !.manual_override = TRUE]
            ELSE m1
      m3 == IF hasArg(request, "heater")
            THEN [m2 EXCEPT !.heater_state = (toInt(arg(request, "heater")) = 1),
                            !.manual_override = TRUE]
            ELSE m2
  IN IF hasArg(request, "schedule") THEN m3 ELSE [m3 EXCEPT !.manual_override = TRUE]

handle_manual_control(m, request) ==
  LET m1 == [m EXCEPT !.manual_override = TRUE]
      m2 == IF hasArg(request, "pump")
            THEN [m1 EXCEPT !.circulation_pump_state = (toInt(arg(request, "pump")) = 1)]
            ELSE m1
      m3 == IF hasArg(request, "heater")
            THEN [m2 EXCEPT !.heater_state = (toInt(arg(request, "heater")) = 1)]
            ELSE m2
  IN IF hasArg(request, "schedule") THEN [m3 EXCEPT !.manual_override = FALSE] ELSE m3

\* the page sent, by its lines that depend on the relay state: the two cells of the Live
\* Status table and the override notice
handle_root(m) ==
  [m EXCEPT !.page = [pump |-> bool_to_on_off(digitalRead(m, CIRCULATION_PUMP_PIN)),
                      heater |-> bool_to_on_off(digitalRead(m, HEATER_PIN)),
                      override_notice |-> m.manual_override]]

\* handle_schedule(), the slot one form field pair yields
parse_slot(start, end) ==
  Schedule(toInt(substring(start, 0, 2)), toInt(substring(start, 3, 5)),
           toInt(substring(end, 0, 2)), toInt(substring(end, 3, 5)))

handle_schedule(m, request) ==
  save_config_to_eeprom(
    [m EXCEPT !.controller_config.pump_schedules =
                  [i \in SlotIndex |-> parse_slot(arg(request, <<"p_start", i>>),
                                                  arg(request, <<"p_end", i>>))],
              !.controller_config.heater_schedules =
                  [i \in SlotIndex |-> parse_slot(arg(request, <<"h_start", i>>),
                                                  arg(request, <<"h_end", i>>))]])

\* handle_schedule() statement by statement.  The handler is entered from
\* server.handleClient(), which loop() calls, and returns before loop() goes on.
handle_schedule_enter(m, request) ==
  [m EXCEPT !.pc = "handle_schedule", !.slot_i = 0, !.http_request = request]

\* one pass of its for loop: both slots of index i
handle_schedule_slot(m) ==
  LET i == m.slot_i
  IN [m EXCEPT !.controller_config.pump_schedules[i] =
                    parse_slot(arg(m.http_request, <<"p_start", i>>),
                               arg(m.http_request, <<"p_end", i>>)),
               !.controller_config.heater_schedules[i] =
                    parse_slot(arg(m.http_request, <<"h_start", i>>),
                               arg(m.http_request, <<"h_end", i>>)),
               !.slot_i = i + 1]

\* the statements after the for loop, and the return
handle_schedule_return(m) ==
  [save_config_to_eeprom(m) EXCEPT !.pc = "idle", !.slot_i = 0, !.http_request = <<>>]

\* strncpy into a char[size] followed by a terminating 0 in the last byte
strncpy(src, size) == IF Len(src) > size - 1 THEN SubSeq(src, 1, size - 1) ELSE src

handle_save_wifi(m, request) ==
  reset(save_config_to_eeprom(
    [m EXCEPT !.controller_config.wifi.ssid = strncpy(arg(request, "ssid"), 33),
              !.controller_config.wifi.password = strncpy(arg(request, "password"), 65)]))

----------------------------------------------------------------------------
(* Two-relay build *)

\* PubSubClient::publish(): sent only while the session is up
publish(m, topic, payload) ==
  IF m.mqtt_connected
  THEN [m EXCEPT !.published = Append(m.published, [topic |-> topic, payload |-> payload])]
  ELSE m

subscribe(m, topic) ==
  IF m.mqtt_connected THEN [m EXCEPT !.subscriptions = m.subscriptions \cup {topic}] ELSE m

\* ON followed by anything
is_payload_on_prefix(payload, length) ==
  length >= 2 /\ toupper(payload[1]) = "O" /\ toupper(payload[2]) = "N"

is_payload_on(payload, length) ==
  length = 2 /\ toupper(payload[1]) = "O" /\ toupper(payload[2]) = "N"

\* the requested pump state is published
update_relays_and_publish_requested(m) ==
  LET final_pump_state == IF m.heater_state THEN TRUE ELSE m.circulation_pump_state
      final_heater_state == IF m.heater_state THEN TRUE ELSE FALSE
      m1 == digitalWrite(m, CIRCULATION_PUMP_PIN, IF final_pump_state THEN HIGH ELSE LOW)
      m2 == digitalWrite(m1, HEATER_PIN, IF final_heater_state THEN HIGH ELSE LOW)
      m3 == publish(m2, MQTT_CIRCULATION_PUMP_STATE_TOPIC,
                    bool_to_on_off(m.circulation_pump_state))
  IN publish(m3, MQTT_HEATER_STATE_TOPIC, bool_to_on_off(final_heater_state))

update_relays_and_publish_states(m) ==
  LET final_pump_state == IF m.heater_state THEN TRUE ELSE m.circulation_pump_state
      final_heater_state == IF m.heater_state THEN TRUE ELSE FALSE
      m1 == digitalWrite(m, CIRCULATION_PUMP_PIN, IF final_pump_state THEN HIGH ELSE LOW)
      m2 == digitalWrite(m1, HEATER_PIN, IF final_heater_state THEN HIGH ELSE LOW)
      m3 == publish(m2, MQTT_CIRCULATION_PUMP_STATE_TOPIC, bool_to_on_off(final_pump_state))
  IN publish(m3, MQTT_HEATER_STATE_TOPIC, bool_to_on_off(final_heater_state))

\* update_relays_and_publish_states() statement by statement: its first digitalWrite(),
\* the pump pin
update_relays_and_publish_states_pump_write(m) ==
  LET final_pump_state == IF m.heater_state THEN TRUE ELSE m.circulation_pump_state
  IN [digitalWrite(m, CIRCULATION_PUMP_PIN, IF final_pump_state THEN HIGH ELSE LOW)
        EXCEPT !.pc = "update_relays"]

\* its second digitalWrite(), the heater pin, the two publishes and the return
update_relays_and_publish_states_heater_write(m) ==
  LET final_pump_state == IF m.heater_state THEN TRUE ELSE m.circulation_pump_state
      final_heater_state == IF m.heater_state THEN TRUE ELSE FALSE
      m2 == digitalWrite(m, HEATER_PIN, IF final_heater_state THEN HIGH ELSE LOW)
      m3 == publish(m2, MQTT_CIRCULATION_PUMP_STATE_TOPIC, bool_to_on_off(final_pump_state))
  IN [publish(m3, MQTT_HEATER_STATE_TOPIC, bool_to_on_off(final_heater_state))
        EXCEPT !.pc = "idle"]

\* mqtt_callback() up to the first digitalWrite() of update_relays_and_publish_states()
mqtt_callback_pump_write(m, topic, payload, length) ==
  LET is_on == is_payload_on(payload, length)
      m1 == [m EXCEPT !.received = <<topic, payload>>]
      m2 == IF topic = MQTT_CIRCULATION_PUMP_SET_TOPIC
            THEN [m1 EXCEPT !.circulation_pump_state = is_on]
            ELSE IF topic = MQTT_HEATER_SET_TOPIC
            THEN [m1 EXCEPT !.heater_state = is_on]
            ELSE m1
  IN update_relays_and_publish_states_pump_write(m2)

\* a heater command drags the pump request along
\* a message on a topic that is no set topic drops both requests
mqtt_callback_other_topic_clears(m, topic, payload, length) ==
  LET is_on == is_payload_on(payload, length)
      m1 == [m EXCEPT !.received = <<topic, payload>>]
      m2 == IF topic = MQTT_CIRCULATION_PUMP_SET_TOPIC
            THEN [m1 EXCEPT !.circulation_pump_state = is_on]
            ELSE IF topic = MQTT_HEATER_SET_TOPIC
            THEN [m1 EXCEPT !.heater_state = is_on]
            ELSE [m1 EXCEPT !.circulation_pump_state = FALSE, !.heater_state = FALSE]
  IN update_relays_and_publish_states(m2)

mqtt_callback_heater_sets_pump(m, topic, payload, length) ==
  LET is_on == is_payload_on(payload, length)
      m1 == [m EXCEPT !.received = <<topic, payload>>]
      m2 == IF topic = MQTT_CIRCULATION_PUMP_SET_TOPIC
            THEN [m1 EXCEPT !.circulation_pump_state = is_on]
            ELSE IF topic = MQTT_HEATER_SET_TOPIC
            THEN [m1 EXCEPT !.heater_state = is_on, !.circulation_pump_state = is_on]
            ELSE m1
  IN update_relays_and_publish_states(m2)

mqtt_callback(m, topic, payload, length) ==
  LET is_on == is_payload_on(payload, length)
      m1 == [m EXCEPT !.received = <<topic, payload>>]
      m2 == IF topic = MQTT_CIRCULATION_PUMP_SET_TOPIC
            THEN [m1 EXCEPT !.circulation_pump_state = is_on]
            ELSE IF topic = MQTT_HEATER_SET_TOPIC
            THEN [m1 EXCEPT !.heater_state = is_on]
            ELSE m1
  IN update_relays_and_publish_states(m2)

\* link: whether the station associates within the 20 polls of setup_wifi()
setup_wifi(m, link) ==
  [m EXCEPT !.wifi_status = IF link THEN WL_CONNECTED ELSE WL_DISCONNECTED]

\* setup opens the broker session as soon as the WiFi link is up
setup_two_relay_connects(m, link) ==
  LET m1 == digitalWrite(digitalWrite(m, CIRCULATION_PUMP_PIN, LOW), HEATER_PIN, LOW)
  IN [setup_wifi(m1, link) EXCEPT !.phase = "running", !.mqtt_connected = link]

setup_two_relay(m, link) ==
  LET m1 == digitalWrite(digitalWrite(m, CIRCULATION_PUMP_PIN, LOW), HEATER_PIN, LOW)
  IN [setup_wifi(m1, link) EXCEPT !.phase = "running"]

\* the heater-set topic is not subscribed again
handle_connections_pump_topic_only(m, broker) ==
  IF m.wifi_status # WL_CONNECTED
  THEN IF m.millis - m.last_reconnect_attempt_time > RECONNECT_INTERVAL
       THEN [m EXCEPT !.last_reconnect_attempt_time = m.millis]
       ELSE m
  ELSE IF ~m.mqtt_connected /\ m.millis - m.last_reconnect_attempt_time > RECONNECT_INTERVAL
  THEN LET m1 == [m EXCEPT !.last_reconnect_attempt_time = m.millis,
                           !.connect_attempts = Append(m.connect_attempts, m.millis)]
       IN IF broker
          THEN LET m2 == [m1 EXCEPT !.mqtt_connected = TRUE, !.subscriptions = {}]
                   m3 == publish(m2, MQTT_AVAILABILITY_TOPIC, <<"o","n","l","i","n","e">>)
                   m4 == subscribe(m3, MQTT_CIRCULATION_PUMP_SET_TOPIC)
               IN update_relays_and_publish_states(m4)
          ELSE m1
  ELSE m

\* a retry as soon as the interval is reached
handle_connections_at_interval(m, broker) ==
  IF m.wifi_status # WL_CONNECTED
  THEN IF m.millis - m.last_reconnect_attempt_time >= RECONNECT_INTERVAL
       THEN [m EXCEPT !.last_reconnect_attempt_time = m.millis]
       ELSE m
  ELSE IF ~m.mqtt_connected /\ m.millis - m.last_reconnect_attempt_time >= RECONNECT_INTERVAL
  THEN LET m1 == [m EXCEPT !.last_reconnect_attempt_time = m.millis,
                           !.connect_attempts = Append(m.connect_attempts, m.millis)]
       IN IF broker
          THEN LET m2 == [m1 EXCEPT !.mqtt_connected = TRUE, !.subscriptions = {}]
                   m3 == publish(m2, MQTT_AVAILABILITY_TOPIC, <<"o","n","l","i","n","e">>)
                   m4 == subscribe(m3, MQTT_CIRCULATION_PUMP_SET_TOPIC)
                   m5 == subscribe(m4, MQTT_HEATER_SET_TOPIC)
               IN update_relays_and_publish_states(m5)
          ELSE m1
  ELSE m

\* broker: whether client.connect() succeeds if it is called
handle_connections(m, broker) ==
  IF m.wifi_status # WL_CONNECTED
  THEN IF m.millis - m.last_reconnect_attempt_time > RECONNECT_INTERVAL
       THEN [m EXCEPT !.last_reconnect_attempt_time = m.millis]
       ELSE m
  ELSE IF ~m.mqtt_connected /\ m.millis - m.last_reconnect_attempt_time > RECONNECT_INTERVAL
  THEN LET m1 == [m EXCEPT !.last_reconnect_attempt_time = m.millis,
                           !.connect_attempts = Append(m.connect_attempts, m.millis)]
       IN IF broker
          THEN LET m2 == [m1 EXCEPT !.mqtt_connected = TRUE, !.subscriptions = {}]
                   m3 == publish(m2, MQTT_AVAILABILITY_TOPIC, <<"o","n","l","i","n","e">>)
                   m4 == subscribe(m3, MQTT_CIRCULATION_PUMP_SET_TOPIC)
                   m5 == subscribe(m4, MQTT_HEATER_SET_TOPIC)
               IN update_relays_and_publish_states(m5)
          ELSE m1
  ELSE m

\* inbound: the message client.loop() hands to the callback in this pass, <<>> for none
loop_two_relay(m, broker, inbound) ==
  LET current_time == m.millis
      m1 == handle_connections([m EXCEPT !.published = <<>>], broker)
      m2 == IF inbound # <<>>
            THEN mqtt_callback(m1, inbound[1], inbound[2], Len(inbound[2]))
            ELSE m1
      m3 == IF current_time - m2.last_mqtt_publish_time > MQTT_PUBLISH_INTERVAL
            THEN update_relays_and_publish_states(
                   publish([m2 EXCEPT !.last_mqtt_publish_time = current_time],
                           MQTT_AVAILABILITY_TOPIC, <<"o","n","l","i","n","e">>))
            ELSE m2
  IN IF m1.mqtt_connected THEN m3 ELSE m1

\* loop() up to the first digitalWrite() under mqtt_callback(); a pass in which no
\* message arrives runs to its end
loop_two_relay_pump_write(m, broker, inbound) ==
  LET m1 == handle_connections([m EXCEPT !.published = <<>>], broker)
  IN IF m1.mqtt_connected /\ inbound # <<>>
     THEN mqtt_callback_pump_write(m1, inbound[1], inbound[2], Len(inbound[2]))
     ELSE loop_two_relay(m, broker, <<>>)

\* the rest of that pass: the callback's second digitalWrite() and publishes, then the
\* periodic publish
loop_two_relay_resume(m) ==
  LET current_time == m.millis
      m2 == update_relays_and_publish_states_heater_write(m)
  IN IF current_time - m2.last_mqtt_publish_time > MQTT_PUBLISH_INTERVAL
     THEN update_relays_and_publish_states(
            publish([m2 EXCEPT !.last_mqtt_publish_time = current_time],
                    MQTT_AVAILABILITY_TOPIC, <<"o","n","l","i","n","e">>))
     ELSE m2

----------------------------------------------------------------------------
(* Thermostat build: the relay state evaluator.  Temperatures are in tenths of a degree. *)

AllDeasserted ==
  [pump |-> FALSE, external_heater |-> FALSE, internal_heater |-> FALSE, blower |-> FALSE]

\* the control inputs with every flag off
InitialControls ==
  [spa_on |-> FALSE, standby_warming |-> FALSE, fast_heating |-> FALSE,
   circulation_only |-> FALSE, blower_requested |-> FALSE,
   measured_temperature |-> 430, target_temperature |-> 430,
   temperature_tolerance |-> 2, standby_tolerance |-> 10, standby_temp_delta |-> 20]

\* the blower follows its request whether the spa is on or off
relay_state_evaluator_blower_always(in) ==
  LET effective_target == in.target_temperature
                            + (IF in.standby_warming THEN in.standby_temp_delta ELSE 0)
      effective_tolerance == IF in.standby_warming THEN in.standby_tolerance
                             ELSE in.temperature_tolerance
      heating_needed == /\ in.measured_temperature < effective_target - effective_tolerance
                        /\ ~in.circulation_only
      pump_on == heating_needed \/ ~in.standby_warming \/ in.circulation_only
      external_heater == heating_needed
      internal_heater == heating_needed /\ in.fast_heating
  IN IF ~in.spa_on THEN [AllDeasserted EXCEPT !.blower = in.blower_requested]
     ELSE [pump |-> (IF internal_heater \/ external_heater THEN TRUE ELSE pump_on),
           external_heater |-> external_heater, internal_heater |-> internal_heater,
           blower |-> in.blower_requested]

\* circulation_only does not veto heating
relay_state_evaluator_no_veto(in) ==
  LET effective_target == in.target_temperature
                            + (IF in.standby_warming THEN in.standby_temp_delta ELSE 0)
      effective_tolerance == IF in.standby_warming THEN in.standby_tolerance
                             ELSE in.temperature_tolerance
      heating_needed == in.measured_temperature < effective_target - effective_tolerance
      pump_on == heating_needed \/ ~in.standby_warming \/ in.circulation_only
      external_heater == heating_needed
      internal_heater == heating_needed /\ in.fast_heating
  IN IF ~in.spa_on THEN AllDeasserted
     ELSE [pump |-> (IF internal_heater \/ external_heater THEN TRUE ELSE pump_on),
           external_heater |-> external_heater, internal_heater |-> internal_heater,
           blower |-> in.blower_requested]

\* steps 1 to 7 of the evaluator
relay_state_evaluator(in) ==
  LET effective_target == in.target_temperature
                            + (IF in.standby_warming THEN in.standby_temp_delta ELSE 0)
      effective_tolerance == IF in.standby_warming THEN in.standby_tolerance
                             ELSE in.temperature_tolerance
      heating_needed == /\ in.measured_temperature < effective_target - effective_tolerance
                        /\ ~in.circulation_only
      pump_on == heating_needed \/ ~in.standby_warming \/ in.circulation_only
      external_heater == heating_needed
      internal_heater == heating_needed /\ in.fast_heating
  IN IF ~in.spa_on THEN AllDeasserted
     ELSE [pump |-> (IF internal_heater \/ external_heater THEN TRUE ELSE pump_on),
           external_heater |-> external_heater, internal_heater |-> internal_heater,
           blower |-> in.blower_requested]

\* a control cycle: the evaluator is called on the inputs as they are
control_cycle(m) == [m EXCEPT !.relays = relay_state_evaluator(m.controls)]

\* an inbound command sets one boolean input; a sensor tick or a target command sets a
\* temperature; each is followed by a control cycle
thermostat_command(m, flag, value) == control_cycle([m EXCEPT !.controls[flag] = value])

----------------------------------------------------------------------------
(* Inputs *)

\* the boolean control inputs
ControlFlags ==
  {"spa_on", "standby_warming", "fast_heating", "circulation_only", "blower_requested"}

\* measured temperatures: far below every target, around the thresholds, above
MeasuredTemperatures == {-400, 0, 425, 427, 428, 430, 439, 440, 450, 1000}

TargetTemperatures == {380, 430}

\* millis() advances by the reconnect interval per tick, so that it takes the values
\* at which  millis() - t > RECONNECT_INTERVAL  and  ... > MQTT_PUBLISH_INTERVAL  turn true
\* and the last values at which they are still false
TickMs == RECONNECT_INTERVAL

\* readings of myTimezone.hour() and myTimezone.minute(): the start and the end of every
\* slot used below, and times inside and outside the slots
ClockReadings ==
  { <<0, 0>>, <<5, 0>>, <<5, 59>>, <<6, 0>>, <<7, 59>>, <<8, 0>>, <<8, 15>>, <<9, 0>>,
    <<9, 45>>, <<9, 59>>, <<10, 0>>, <<12, 0>>, <<21, 59>>, <<22, 0>>, <<23, 0>>,
    <<23, 59>> }

T0000 == <<"0", "0", ":", "0", "0">>
T0600 == <<"0", "6", ":", "0", "0">>
T0800 == <<"0", "8", ":", "0", "0">>
T1000 == <<"1", "0", ":", "0", "0">>
T2200 == <<"2", "2", ":", "0", "0">>

\* a start/end pair of <input type='time'> fields: unset, same-day, overnight
UnsetSlotInput == <<T0000, T0000>>
SlotInputs == { UnsetSlotInput, <<T0800, T1000>>, <<T2200, T0600>> }

SlotFields == {"p", "h"} \X SlotIndex

\* the POST /schedule request that carries pair[f] in the fields of slot f
ScheduleRequest(pair) ==
  [n \in {"p_start", "p_end", "h_start", "h_end"} \X SlotIndex |->
     LET f == <<IF n[1] \in {"p_start", "p_end"} THEN "p" ELSE "h", n[2]>>
     IN IF n[1] \in {"p_start", "h_start"} THEN pair[f][1] ELSE pair[f][2]]

ScheduleRequests ==
  { ScheduleRequest(pair) : pair \in
      { q \in [SlotFields -> SlotInputs] :
          Cardinality({f \in SlotFields : q[f] # UnsetSlotInput}) <= MaxSetSlots } }

\* POST /control: the buttons of the status page send pump=1, pump=0, heater=1, heater=0
\* or schedule=1; a hand-made request may carry several, or other values
ButtonValues == { <<"1">>, <<"0">> }
ControlRequests ==
  { r \in UNION { [names -> ButtonValues] : names \in SUBSET {"pump", "heater", "schedule"} } :
      "schedule" \in DOMAIN r => r["schedule"] = <<"1">> }

WifiRequests ==
  { [ssid |-> HomeWifi.ssid, password |-> HomeWifi.password],
    [ssid |-> <<>>, password |-> <<>>] }

\* MQTT payloads: every string over the alphabet up to the bound, and some named ones
PayloadAlphabet == {"O", "N", "o", "n"}
RECURSIVE StringsUpTo(_)
StringsUpTo(n) ==
  IF n = 0 THEN { <<>> }
  ELSE LET shorter == StringsUpTo(n - 1)
       IN shorter \cup { Append(x, c) : x \in shorter, c \in PayloadAlphabet }
NamedPayloads ==
  { <<"O", "F", "F">>, <<"1">>, <<"t", "r", "u", "e">>, <<"O", "N", " ">>, <<" ", "O", "N">> }
Payloads == StringsUpTo(MaxPayloadLen) \cup NamedPayloads

\* the payloads a home-automation hub sends, and two it should not
CommandPayloads == { <<"O", "N">>, <<"O", "F", "F">>, <<"o", "n">>, <<>>, <<"1">> }

InboundTopics == {MQTT_CIRCULATION_PUMP_SET_TOPIC, MQTT_HEATER_SET_TOPIC, MQTT_DEBUG_TOPIC}
Inbound == InboundTopics \X Payloads
CommandInbound == InboundTopics \X CommandPayloads

----------------------------------------------------------------------------
(* Initial state and actions *)

Init ==
  /\ variant \in {"schedule", "two_relay"}
  /\ \E record \in InitialRecords, counter \in InitialBootCounters :
       EEPROM = [a \in {CONFIG_EEPROM_ADDR, RESET_EEPROM_ADDR} |->
                   IF a = CONFIG_EEPROM_ADDR
                   THEN IF variant = "schedule" THEN record ELSE ErasedRecord
                   ELSE IF variant = "schedule" THEN counter ELSE EEPROM_SIZE - 1]
  /\ phase = "reset"
  /\ millis = 0
  /\ wifi_status = WL_DISCONNECTED
  /\ gpio = [p \in {CIRCULATION_PUMP_PIN, HEATER_PIN} |-> LOW]
  /\ circulation_pump_state = FALSE
  /\ heater_state = FALSE
  /\ manual_override = FALSE
  /\ in_config_mode = FALSE
  /\ controller_config = InitialConfig
  /\ boot_time = 0
  /\ reset_counter_cleared = FALSE
  /\ last_wifi_reconnect_attempt = 0
  /\ mqtt_connected = FALSE
  /\ subscriptions = {}
  /\ last_mqtt_publish_time = 0
  /\ last_reconnect_attempt_time = 0
  /\ received = <<>>
  /\ published = <<>>
  /\ pc = "idle"
  /\ slot_i = 0
  /\ http_request = <<>>
  /\ connect_attempts = <<>>
  /\ page = NoPage
  /\ boot_streak = NoStreak
  /\ controls = InitialControls
  /\ relays = AllDeasserted

\* --- schedule build ---
Normal == variant = "schedule" /\ phase = "running" /\ ~in_config_mode

SetupSchedule ==
  /\ variant = "schedule" /\ phase = "reset"
  /\ \E link \in BOOLEAN : Becomes(setup_schedule(M, link))

LoopSchedule ==
  /\ variant = "schedule" /\ phase = "running"
  /\ \E now \in ClockReadings : Becomes(loop_schedule(M, now[1], now[2]))

HandleSchedule ==
  /\ Normal /\ wifi_status = WL_CONNECTED
  /\ \E request \in ScheduleRequests : Becomes(handle_schedule(M, request))

HandleManualControl ==
  /\ Normal /\ wifi_status = WL_CONNECTED
  /\ \E request \in ControlRequests : Becomes(handle_manual_control(M, request))

HandleSaveWifi ==
  /\ variant = "schedule" /\ phase = "running" /\ in_config_mode
  /\ \E request \in WifiRequests : Becomes(handle_save_wifi(M, request))

HandleRoot ==
  /\ Normal /\ wifi_status = WL_CONNECTED
  /\ Becomes(handle_root(M))

\* --- schedule build, handle_schedule() statement by statement ---

\* the loop task never ran a handler on the side
LoopTaskAnywhere == TRUE

\* the loop task is between two handlers: loop(), and the handlers that
\* server.handleClient() runs from loop(), start only here
LoopTaskIdle == pc = "idle"

LoopScheduleIdle == LoopTaskIdle /\ LoopSchedule

HandleScheduleEnter ==
  /\ LoopTaskIdle /\ Normal /\ wifi_status = WL_CONNECTED
  /\ \E request \in ScheduleRequests : Becomes(handle_schedule_enter(M, request))

HandleScheduleSlot ==
  /\ variant = "schedule" /\ phase = "running" /\ pc = "handle_schedule" /\ slot_i < 3
  /\ Becomes(handle_schedule_slot(M))

HandleScheduleReturn ==
  /\ variant = "schedule" /\ phase = "running" /\ pc = "handle_schedule" /\ slot_i >= 3
  /\ Becomes(handle_schedule_return(M))

\* --- two-relay build ---
SetupTwoRelay ==
  /\ variant = "two_relay" /\ phase = "reset"
  /\ \E link \in BOOLEAN : Becomes(setup_two_relay(M, link))

\* one pass of loop(); a message (one of `messages`) can arrive only over a session that
\* is up when client.loop() runs
LoopTwoRelayWith(messages) ==
  /\ variant = "two_relay" /\ phase = "running"
  /\ \E broker \in BOOLEAN :
       \E inbound \in IF handle_connections(M, broker).mqtt_connected
                      THEN messages \cup { <<>> } ELSE { <<>> } :
         Becomes(loop_two_relay(M, broker, inbound))

LoopTwoRelay == LoopTwoRelayWith(CommandInbound)

\* the same with no message arriving
LoopTwoRelayQuiet == LoopTwoRelayWith({})

\* the same with every payload up to MaxPayloadLen
LoopTwoRelayAnyPayload == LoopTwoRelayWith(Inbound)

\* the broker closes the session, or the keep-alive runs out
BrokerDown ==
  /\ variant = "two_relay" /\ phase = "running" /\ mqtt_connected
  /\ Becomes([M EXCEPT !.mqtt_connected = FALSE, !.subscriptions = {}])

\* --- both builds: the environment ---
Tick ==
  /\ phase = "running"
  /\ millis < MaxTicks * TickMs
  /\ Becomes([M EXCEPT !.millis = millis + TickMs])

\* millis() advances by 1 ms (once, off a multiple of TickMs) or by TickMs, so that it
\* takes the values k * TickMs and k * TickMs + 1
Elapse ==
  /\ phase = "running"
  /\ \E d \in {1, TickMs} :
       /\ d = 1 => millis % TickMs = 0
       /\ millis + d <= MaxTicks * TickMs + 1
       /\ Becomes([M EXCEPT !.millis = millis + d])

WiFiDown ==
  /\ phase = "running" /\ ~in_config_mode /\ wifi_status = WL_CONNECTED
  /\ Becomes([M EXCEPT !.wifi_status = WL_DISCONNECTED, !.mqtt_connected = FALSE,
                       !.subscriptions = {}])

WiFiUp ==
  /\ phase = "running" /\ ~in_config_mode /\ wifi_status # WL_CONNECTED
  /\ Becomes([M EXCEPT !.wifi_status = WL_CONNECTED])

\* power is cut and restored, or the chip is reset
PowerCycle ==
  /\ phase = "running"
  /\ Becomes(reset(M))

NextSchedule ==
  \/ SetupSchedule
  \/ LoopSchedule
  \/ HandleSchedule
  \/ HandleManualControl
  \/ HandleSaveWifi

\* in Spec the clock moves in the two-relay build only: the schedule build is followed
\* from each boot with the clock still at the boot time
TwoRelayTick == variant = "two_relay" /\ Tick

NextTwoRelay ==
  \/ SetupTwoRelay
  \/ LoopTwoRelay
  \/ BrokerDown
  \/ TwoRelayTick

Next ==
  \/ NextSchedule
  \/ NextTwoRelay
  \/ WiFiDown
  \/ WiFiUp
  \/ PowerCycle

Spec == Init /\ [][Next]_vars

\* the two-relay build on an undisturbed link, receiving every payload up to MaxPayloadLen
InitTwoRelay == Init /\ variant = "two_relay"

NextPayload ==
  \/ SetupTwoRelay
  \/ LoopTwoRelayAnyPayload
  \/ Tick

SpecPayload == InitTwoRelay /\ [][NextPayload]_vars

\* the thermostat build: commands and sensor readings, each followed by a control cycle
InitThermostat ==
  /\ variant = "thermostat"
  /\ EEPROM = [a \in {CONFIG_EEPROM_ADDR, RESET_EEPROM_ADDR} |->
                 IF a = CONFIG_EEPROM_ADDR THEN ErasedRecord ELSE EEPROM_SIZE - 1]
  /\ phase = "running"
  /\ millis = 0
  /\ wifi_status = WL_DISCONNECTED
  /\ gpio = [p \in {CIRCULATION_PUMP_PIN, HEATER_PIN} |-> LOW]
  /\ circulation_pump_state = FALSE
  /\ heater_state = FALSE
  /\ manual_override = FALSE
  /\ in_config_mode = FALSE
  /\ controller_config = InitialConfig
  /\ boot_time = 0
  /\ reset_counter_cleared = FALSE
  /\ last_wifi_reconnect_attempt = 0
  /\ mqtt_connected = FALSE
  /\ subscriptions = {}
  /\ last_mqtt_publish_time = 0
  /\ last_reconnect_attempt_time = 0
  /\ received = <<>>
  /\ published = <<>>
  /\ pc = "idle"
  /\ slot_i = 0
  /\ http_request = <<>>
  /\ connect_attempts = <<>>
  /\ page = NoPage
  /\ boot_streak = NoStreak
  /\ controls = InitialControls
  /\ relays = AllDeasserted

ThermostatFlagCommand ==
  /\ variant = "thermostat"
  /\ \E flag \in ControlFlags, value \in BOOLEAN :
       Becomes(thermostat_command(M, flag, value))

ThermostatSensorTick ==
  /\ variant = "thermostat"
  /\ \E t \in MeasuredTemperatures :
       Becomes(thermostat_command(M, "measured_temperature", t))

ThermostatTargetCommand ==
  /\ variant = "thermostat"
  /\ \E t \in TargetTemperatures :
       Becomes(thermostat_command(M, "target_temperature", t))

NextThermostat ==
  \/ ThermostatFlagCommand
  \/ ThermostatSensorTick
  \/ ThermostatTargetCommand

SpecThermostat == InitThermostat /\ [][NextThermostat]_vars

\* both builds from a store whose boot counter byte is 0
InitRetry == Init /\ (variant = "schedule" => EEPROM[RESET_EEPROM_ADDR] = 0)

\* both builds with the two pin writes of a relay update as separate steps
LoopSchedulePumpWrite ==
  /\ LoopTaskIdle /\ variant = "schedule" /\ phase = "running"
  /\ \E now \in ClockReadings : Becomes(loop_schedule_pump_write(M, now[1], now[2]))

UpdateRelaysHeaterWrite ==
  /\ variant = "schedule" /\ phase = "running" /\ pc = "update_relays"
  /\ Becomes(update_relays_heater_write(M))

HandleManualControlIdle == LoopTaskIdle /\ HandleManualControl

LoopTwoRelayPumpWrite ==
  /\ LoopTaskIdle /\ variant = "two_relay" /\ phase = "running"
  /\ \E broker \in BOOLEAN :
       \E inbound \in IF handle_connections(M, broker).mqtt_connected
                      THEN CommandInbound \cup { <<>> } ELSE { <<>> } :
         Becomes(loop_two_relay_pump_write(M, broker, inbound))

LoopTwoRelayResume ==
  /\ variant = "two_relay" /\ phase = "running" /\ pc = "update_relays"
  /\ Becomes(loop_two_relay_resume(M))

TickIdle == LoopTaskIdle /\ Tick

NextWrites ==
  \/ SetupSchedule
  \/ LoopSchedulePumpWrite
  \/ UpdateRelaysHeaterWrite
  \/ HandleManualControlIdle
  \/ SetupTwoRelay
  \/ LoopTwoRelayPumpWrite
  \/ LoopTwoRelayResume
  \/ TickIdle

SpecWrites == InitRetry /\ [][NextWrites]_vars

InitSchedule == Init /\ variant = "schedule"

\* the schedule build under manual control, with the status page and the schedule form
InitManual == InitSchedule /\ EEPROM[RESET_EEPROM_ADDR] = 0

NextManual ==
  \/ SetupSchedule
  \/ LoopSchedule
  \/ HandleRoot
  \/ HandleSchedule
  \/ HandleManualControl

SpecManual == InitManual /\ [][NextManual]_vars

\* the schedule build through power cycles, from every counter byte, with the boots counted
SetupScheduleCounted ==
  /\ variant = "schedule" /\ phase = "reset"
  /\ \E link \in BOOLEAN : Becomes(boot_counted(M, setup_schedule(M, link)))

LoopScheduleCounted ==
  /\ variant = "schedule" /\ phase = "running"
  /\ \E now \in ClockReadings :
       Becomes(clear_counted(M, loop_schedule(M, now[1], now[2])))

\* millis() reaches the boot timeout, then passes it
ElapseBoot ==
  /\ variant = "schedule" /\ phase = "running"
  /\ \E t \in {SUCCESSFUL_BOOT_TIMEOUT_MS, SUCCESSFUL_BOOT_TIMEOUT_MS + 1} :
       /\ millis < t
       /\ Becomes([M EXCEPT !.millis = t])

NextBoot ==
  \/ SetupScheduleCounted
  \/ LoopScheduleCounted
  \/ ElapseBoot
  \/ PowerCycle

SpecBoot == InitSchedule /\ [][NextBoot]_vars

\* both builds through outages of the link and of the broker, without the schedule form
NextOutage ==
  \/ SetupSchedule
  \/ LoopSchedule
  \/ HandleManualControl
  \/ SetupTwoRelay
  \/ LoopTwoRelay
  \/ BrokerDown
  \/ Elapse
  \/ WiFiDown
  \/ WiFiUp
  \/ PowerCycle

SpecOutage == Init /\ [][NextOutage]_vars

\* both builds through outages, with loop() called again and again, as the Arduino core does
NextRetry ==
  \/ SetupSchedule
  \/ LoopSchedule
  \/ SetupTwoRelay
  \/ LoopTwoRelayQuiet
  \/ BrokerDown
  \/ Elapse
  \/ WiFiDown
  \/ WiFiUp

SpecRetry ==
  InitRetry /\ [][NextRetry]_vars /\ WF_vars(LoopSchedule) /\ WF_vars(LoopTwoRelayQuiet)


\* the schedule build with handle_schedule() taken one statement at a time, from a store
\* whose boot counter byte is 0 or erased (the counter plays no part in a form post)
InitPost == InitSchedule /\ EEPROM[RESET_EEPROM_ADDR] \in {0, EEPROM_SIZE - 1}

NextPost ==
  \/ SetupSchedule
  \/ LoopScheduleIdle
  \/ HandleScheduleEnter
  \/ HandleScheduleSlot
  \/ HandleScheduleReturn

SpecPost == InitPost /\ [][NextPost]_vars

----------------------------------------------------------------------------
(* What the claims speak of, stated apart from the handlers above *)

Pump == gpio[CIRCULATION_PUMP_PIN]
Heater == gpio[HEATER_PIN]

StartMinute(slot) == slot.start_hour * 60 + slot.start_minute
EndMinute(slot) == slot.end_hour * 60 + slot.end_minute

\* the window of a slot as the specification words it
InWindow(slot, t) ==
  \/ StartMinute(slot) < EndMinute(slot) /\ StartMinute(slot) <= t /\ t < EndMinute(slot)
  \/ StartMinute(slot) > EndMinute(slot) /\ (t >= StartMinute(slot) \/ t < EndMinute(slot))

SomeSlotInWindow(schedules, t) == \E i \in SlotIndex : InWindow(schedules[i], t)

Disabled(slot) == StartMinute(slot) = EndMinute(slot)

\* the machine after one pass of loop() of the schedule build with the clock at now
AfterLoop(now) == loop_schedule(M, now[1], now[2])

\* the schedule build is calling loop() with manual override off
Scheduling == variant = "schedule" /\ phase = "running" /\ ~manual_override

----------------------------------------------------------------------------
(* C1: in both builds the heater pin is HIGH only if the pump pin is HIGH, in every state
   reached through boots, schedule ticks, schedule edits, manual control and MQTT commands *)
C1_HeaterImpliesPump == Heater = HIGH => Pump = HIGH

\* the heater is on and the pump, not requested, is on with it
C1_Witness ==
  /\ variant = "schedule" /\ phase = "running"
  /\ Heater = HIGH /\ Pump = HIGH /\ ~circulation_pump_state

(* C2, as amended: schedule build in normal mode, manual override off: after a pass of
   loop() the pump output is (some pump slot active or some heater slot active) and the
   heater output is (some heater slot active) *)
C2_OutputsFollowSchedulesInNormalMode ==
  \A now \in ClockReadings :
    Scheduling /\ ~in_config_mode =>
      LET t == now[1] * 60 + now[2]
          pump_slot == SomeSlotInWindow(controller_config.pump_schedules, t)
          heater_slot == SomeSlotInWindow(controller_config.heater_schedules, t)
      IN /\ AfterLoop(now).gpio[CIRCULATION_PUMP_PIN] = (pump_slot \/ heater_slot)
         /\ AfterLoop(now).gpio[HEATER_PIN] = heater_slot

(* C2 as claimed: the same after every pass of loop() with manual override off *)
C2_OutputsFollowSchedules ==
  \A now \in ClockReadings :
    Scheduling =>
      LET t == now[1] * 60 + now[2]
          pump_slot == SomeSlotInWindow(controller_config.pump_schedules, t)
          heater_slot == SomeSlotInWindow(controller_config.heater_schedules, t)
      IN /\ AfterLoop(now).gpio[CIRCULATION_PUMP_PIN] = (pump_slot \/ heater_slot)
         /\ AfterLoop(now).gpio[HEATER_PIN] = heater_slot

\* a heater slot is active, no pump slot is set at all, and the pump runs
C2_Witness ==
  /\ Normal /\ ~manual_override
  /\ \A i \in SlotIndex : Disabled(controller_config.pump_schedules[i])
  /\ heater_state /\ ~circulation_pump_state
  /\ Heater = HIGH /\ Pump = HIGH

\* the payloads that read ON
OnForms == { <<"o", "n">>, <<"O", "n">>, <<"o", "N">>, <<"O", "N">> }

\* this step is one pass of loop() of the two-relay build, in which client.loop() handed
\* `inbound` to mqtt_callback (none when inbound is <<>>)
TwoRelayPass(broker, inbound) ==
  /\ variant = "two_relay" /\ phase = "running"
  /\ inbound # <<>> => handle_connections(M, broker).mqtt_connected
  /\ Becomes(loop_two_relay(M, broker, inbound))

(* C3: two-relay build: the pump output is (last pump command ON) or (last heater command
   ON) and the heater output is the last heater command; a pump command does not touch
   the heater request nor a heater command the pump request, so the pump returns to its
   own request when the heater is commanded off; the pins carry a command when the
   callback returns *)
C3_PumpFollowsCommandUnlessHeater ==
  /\ [](variant = "two_relay" =>
          /\ Pump = (circulation_pump_state \/ heater_state)
          /\ Heater = heater_state)
  /\ [][\A broker \in BOOLEAN, inbound \in CommandInbound :
          TwoRelayPass(broker, inbound) =>
            LET on == inbound[2] \in OnForms
            IN /\ inbound[1] = MQTT_CIRCULATION_PUMP_SET_TOPIC =>
                    /\ circulation_pump_state' = on /\ heater_state' = heater_state
                    /\ Pump' = (on \/ heater_state) /\ Heater' = heater_state
               /\ inbound[1] = MQTT_HEATER_SET_TOPIC =>
                    /\ heater_state' = on /\ circulation_pump_state' = circulation_pump_state
                    /\ Pump' = (circulation_pump_state \/ on) /\ Heater' = on]_vars
  /\ [][ /\ variant = "two_relay"
         /\ circulation_pump_state' # circulation_pump_state \/ heater_state' # heater_state
         => \/ phase' = "reset"
            \/ \E broker \in BOOLEAN, inbound \in CommandInbound :
                 /\ inbound[1] \in {MQTT_CIRCULATION_PUMP_SET_TOPIC, MQTT_HEATER_SET_TOPIC}
                 /\ TwoRelayPass(broker, inbound) ]_vars

\* the heater has just been commanded off and the pump, commanded on before, stays on
C3_Witness ==
  /\ variant = "two_relay"
  /\ received = <<MQTT_HEATER_SET_TOPIC, <<"O", "F", "F">> >>
  /\ ~heater_state /\ circulation_pump_state
  /\ Pump = HIGH /\ Heater = LOW

(* C4: schedule build: a slot whose start equals its end (in minutes) is active at no
   time, so the schedule never switches on a device all of whose slots are such *)
C4_EqualStartEndNeverActive ==
  \A now \in ClockReadings :
    Scheduling =>
      LET t == now[1] * 60 + now[2]
          pump == controller_config.pump_schedules
          heater == controller_config.heater_schedules
      IN /\ \A i \in SlotIndex : /\ Disabled(pump[i]) => ~is_active(pump[i], t)
                                 /\ Disabled(heater[i]) => ~is_active(heater[i], t)
         /\ (\A i \in SlotIndex : Disabled(pump[i]))
              => ~AfterLoop(now).circulation_pump_state
         /\ (\A i \in SlotIndex : Disabled(heater[i]))
              => /\ ~AfterLoop(now).heater_state
                 /\ AfterLoop(now).gpio[HEATER_PIN] = LOW
         /\ (\A i \in SlotIndex : Disabled(pump[i]) /\ Disabled(heater[i]))
              => AfterLoop(now).gpio[CIRCULATION_PUMP_PIN] = LOW

\* the pump's slots are 00:00-00:00, 08:15-08:15, 00:00-00:00; a pass of loop() that found
\* the heater due left the pump request off
C4_Witness ==
  /\ Normal /\ ~manual_override
  /\ controller_config.pump_schedules[1] = Schedule(8, 15, 8, 15)
  /\ \A i \in SlotIndex : Disabled(controller_config.pump_schedules[i])
  /\ ~circulation_pump_state /\ heater_state /\ Heater = HIGH

\* slot i is the only slot of the device with start # end
OnlySlot(schedules, i) == \A j \in SlotIndex \ {i} : Disabled(schedules[j])

\* the readings at which a 22:00-06:00 slot is to be active
From22To6 == { <<22, 0>>, <<23, 0>>, <<23, 59>>, <<0, 0>>, <<5, 0>>, <<5, 59>> }

(* C5: schedule build: a slot with start > end (overnight) is active at minute t exactly
   when t >= start or t < end; 22:00-06:00 is active at 22:00, 23:00 and 05:00 and
   inactive at 06:00 and 12:00 *)
C5_OvernightWindow ==
  \A now \in ClockReadings :
    Scheduling /\ ~in_config_mode =>
      LET t == now[1] * 60 + now[2]
          Holds(schedules, state) ==
            \A i \in SlotIndex :
              StartMinute(schedules[i]) > EndMinute(schedules[i]) =>
                LET in == t >= StartMinute(schedules[i]) \/ t < EndMinute(schedules[i])
                IN /\ is_active(schedules[i], t) = in
                   /\ in => state
                   /\ OnlySlot(schedules, i) => state = in
                   /\ schedules[i] = Schedule(22, 0, 6, 0) => in = (now \in From22To6)
      IN /\ Holds(controller_config.pump_schedules, AfterLoop(now).circulation_pump_state)
         /\ Holds(controller_config.heater_schedules, AfterLoop(now).heater_state)

\* only an overnight heater slot is set, and a pass of loop() found it active
C5_Witness ==
  /\ Normal /\ ~manual_override
  /\ \E i \in SlotIndex :
       /\ controller_config.heater_schedules[i] = Schedule(22, 0, 6, 0)
       /\ OnlySlot(controller_config.heater_schedules, i)
  /\ heater_state /\ Heater = HIGH

(* C6: schedule build: a slot with start < end (same day) is active at minute t exactly
   when start <= t < end, for pump slots and heater slots alike *)
C6_SameDayWindow ==
  \A now \in ClockReadings :
    Scheduling /\ ~in_config_mode =>
      LET t == now[1] * 60 + now[2]
          Holds(schedules, state) ==
            \A i \in SlotIndex :
              StartMinute(schedules[i]) < EndMinute(schedules[i]) =>
                LET in == StartMinute(schedules[i]) <= t /\ t < EndMinute(schedules[i])
                IN /\ is_active(schedules[i], t) = in
                   /\ in => state
                   /\ OnlySlot(schedules, i) => state = in
      IN /\ Holds(controller_config.pump_schedules, AfterLoop(now).circulation_pump_state)
         /\ Holds(controller_config.heater_schedules, AfterLoop(now).heater_state)

\* only a same-day pump slot is set, no heater slot, and a pass of loop() found it active
C6_Witness ==
  /\ Normal /\ ~manual_override
  /\ \E i \in SlotIndex :
       /\ StartMinute(controller_config.pump_schedules[i])
            < EndMinute(controller_config.pump_schedules[i])
       /\ OnlySlot(controller_config.pump_schedules, i)
  /\ \A i \in SlotIndex : Disabled(controller_config.heater_schedules[i])
  /\ circulation_pump_state /\ Pump = HIGH /\ Heater = LOW

(* C7, as amended: schedule build in normal mode, manual override off: after a pass of
   loop() a device's requested state is true exactly when one of its three slots is
   active at the current minute, whatever the slot's index, the other slots and the
   requested state before the pass *)
C7_RequestIffSomeSlotActiveInNormalMode ==
  \A now \in ClockReadings :
    Scheduling /\ ~in_config_mode =>
      LET t == now[1] * 60 + now[2]
      IN /\ AfterLoop(now).circulation_pump_state
              = SomeSlotInWindow(controller_config.pump_schedules, t)
         /\ AfterLoop(now).heater_state
              = SomeSlotInWindow(controller_config.heater_schedules, t)

(* C7 as claimed: the same after every pass of loop() with manual override off *)
C7_RequestIffSomeSlotActive ==
  \A now \in ClockReadings :
    Scheduling =>
      LET t == now[1] * 60 + now[2]
      IN /\ AfterLoop(now).circulation_pump_state
              = SomeSlotInWindow(controller_config.pump_schedules, t)
         /\ AfterLoop(now).heater_state
              = SomeSlotInWindow(controller_config.heater_schedules, t)

\* the third slot alone is set and active, and the request was on before the pass that
\* left it on
C7_Witness ==
  /\ Normal /\ ~manual_override
  /\ ~Disabled(controller_config.heater_schedules[2])
  /\ OnlySlot(controller_config.heater_schedules, 2)
  /\ heater_state

(* C8: two-relay build: a command payload is taken as asserted exactly when it is the two
   bytes O, N in either case; every other payload, the empty one, OFF, 1, true and ON
   with bytes before or after it included, is taken as deasserted *)
C8_OnlyTwoByteOnAsserts ==
  variant = "two_relay" /\ received # <<>> =>
    LET on == received[2] \in OnForms
    IN /\ is_payload_on(received[2], Len(received[2])) = on
       /\ received[1] = MQTT_CIRCULATION_PUMP_SET_TOPIC => circulation_pump_state = on
       /\ received[1] = MQTT_HEATER_SET_TOPIC => heater_state = on

\* the payload oN has switched the heater on
C8_Witness ==
  /\ variant = "two_relay"
  /\ received = <<MQTT_HEATER_SET_TOPIC, <<"o", "N">> >>
  /\ heater_state /\ Heater = HIGH

\* the state reports among the messages of the last handler
StateReports(messages) ==
  SelectSeq(messages, LAMBDA msg : msg.topic # MQTT_AVAILABILITY_TOPIC)

OnOffLiteral(level) == IF level = HIGH THEN <<"O", "N">> ELSE <<"O", "F", "F">>

(* C9: two-relay build: every relay evaluation publishes one pump state message and one
   heater state message, each the literal ON or OFF, and the values are the levels just
   written to the pins: the forced pump state, not the requested one *)
C9_PublishedStatesAreOutputs ==
  /\ [](variant = "two_relay" =>
          LET r == StateReports(published)
          IN /\ \A k \in 1..Len(r) :
                  /\ r[k].topic = IF k % 2 = 1 THEN MQTT_CIRCULATION_PUMP_STATE_TOPIC
                                  ELSE MQTT_HEATER_STATE_TOPIC
                  /\ r[k].payload \in { <<"O", "N">>, <<"O", "F", "F">> }
             /\ Len(r) % 2 = 0
             /\ Len(r) >= 2 => /\ r[Len(r) - 1].payload = OnOffLiteral(Pump)
                               /\ r[Len(r)].payload = OnOffLiteral(Heater))
  /\ [][\A broker \in BOOLEAN, inbound \in CommandInbound \cup { <<>> } :
          TwoRelayPass(broker, inbound) =>
            LET connected == ~mqtt_connected /\ mqtt_connected'
                delivered == inbound # <<>>
                periodic == last_mqtt_publish_time' # last_mqtt_publish_time
                evaluations == (IF connected THEN 1 ELSE 0) + (IF delivered THEN 1 ELSE 0)
                                 + (IF periodic THEN 1 ELSE 0)
            IN Len(StateReports(published')) = 2 * evaluations]_vars

\* heater commanded on, pump not: the pump is reported ON
C9_Witness ==
  /\ variant = "two_relay"
  /\ heater_state /\ ~circulation_pump_state
  /\ \E k \in 1..Len(published) :
       published[k] = [topic |-> MQTT_CIRCULATION_PUMP_STATE_TOPIC, payload |-> <<"O", "N">>]

\* the defaults as the specification lists them
ExpectedDefaults ==
  ControllerConfig(MAGIC_MARKER, WifiConfig(<<>>, <<>>),
                   Slots(Schedule(8, 0, 10, 0), Schedule(0, 0, 0, 0), Schedule(0, 0, 0, 0)),
                   Slots(Schedule(8, 15, 9, 45), Schedule(0, 0, 0, 0), Schedule(0, 0, 0, 0)))

(* C10: schedule build: a boot that finds a validity marker other than 0xDEADBEEF in the
   stored record replaces every field of the configuration in RAM by the defaults and
   writes them to the store in that boot; a boot that finds the marker uses the stored
   record as it is and leaves the stored record as it is *)
C10_DefaultsOnMarkerMismatch ==
  [][variant = "schedule" /\ phase = "reset" /\ phase' = "running" =>
       /\ EEPROM'[RESET_EEPROM_ADDR] = (EEPROM[RESET_EEPROM_ADDR] + 1) % 256
       /\ IF EEPROM[CONFIG_EEPROM_ADDR].magic_marker # MAGIC_MARKER
          THEN /\ controller_config' = ExpectedDefaults
               /\ EEPROM'[CONFIG_EEPROM_ADDR] = ExpectedDefaults
          ELSE /\ controller_config' = EEPROM[CONFIG_EEPROM_ADDR]
               /\ EEPROM'[CONFIG_EEPROM_ADDR] = EEPROM[CONFIG_EEPROM_ADDR]]_vars

\* the first boot after a record with a bad marker: defaults in RAM and in the store
C10_Witness ==
  /\ variant = "schedule" /\ phase = "running" /\ in_config_mode
  /\ EEPROM[RESET_EEPROM_ADDR] = 1
  /\ controller_config = ExpectedDefaults
  /\ EEPROM[CONFIG_EEPROM_ADDR] = ExpectedDefaults

\* the six slot pairs of a ControllerConfig
SlotPairs(config) == <<config.pump_schedules, config.heater_schedules>>

\* the six slot pairs a request posts
PostedPairs(req) ==
  << [i \in SlotIndex |-> parse_slot(arg(req, <<"p_start", i>>), arg(req, <<"p_end", i>>))],
     [i \in SlotIndex |-> parse_slot(arg(req, <<"h_start", i>>), arg(req, <<"h_end", i>>))] >>

(* C11: schedule build: a schedule form post rewrites all six slot pairs as one unit: a
   pass of loop() (schedule evaluation, relay update) never starts while only some of
   the slots carry the posted values; when the post returns, the configuration in
   memory holds the six posted pairs and the persisted record holds the same; whenever
   the loop task is between handlers the two agree *)
C11_SchedulePostIsAtomic ==
  /\ [](variant = "schedule" /\ phase = "running" /\ pc = "idle"
          => SlotPairs(controller_config) = SlotPairs(EEPROM[CONFIG_EEPROM_ADDR]))
  /\ [][\A now \in ClockReadings :
          phase = "running" /\ Becomes(loop_schedule(M, now[1], now[2]))
            => /\ pc = "idle"
               /\ SlotPairs(controller_config) = SlotPairs(EEPROM[CONFIG_EEPROM_ADDR])]_vars
  /\ [][pc = "handle_schedule" /\ pc' = "idle" /\ phase' = "running"
          => /\ SlotPairs(controller_config') = PostedPairs(http_request)
             /\ EEPROM'[CONFIG_EEPROM_ADDR] = controller_config'
             /\ controller_config' = handle_schedule(M, http_request).controller_config
             /\ EEPROM' = handle_schedule(M, http_request).EEPROM]_vars

\* the handler is past its first pass: the first slots are the posted ones and differ
\* from the persisted record, a later slot still holds a value that was not posted
C11_Witness ==
  /\ pc = "handle_schedule" /\ slot_i = 1
  /\ controller_config.heater_schedules[0] = PostedPairs(http_request)[2][0]
  /\ controller_config.heater_schedules[0] # EEPROM[CONFIG_EEPROM_ADDR].heater_schedules[0]
  /\ \E i \in 1..2 : controller_config.pump_schedules[i] # PostedPairs(http_request)[1][i]

(* C12: control goes on through an outage.  Schedule build: a pass of loop() in normal
   mode with WiFi down still evaluates the schedules (manual override off) and drives
   the relays from the requested states, exactly as with WiFi up.  Two-relay build: a
   pass of loop() that processes no command (whether it reconnects, fails to, or finds
   the link down) changes neither requested state nor output pin.  The link or the
   session going down or coming up changes neither by itself. *)
C12_ControlContinuesDuringOutage ==
  /\ [](\A now \in ClockReadings :
          Normal /\ wifi_status # WL_CONNECTED =>
            LET t == now[1] * 60 + now[2]
                after == AfterLoop(now)
                online == loop_schedule([M EXCEPT !.wifi_status = WL_CONNECTED], now[1], now[2])
            IN /\ ~manual_override =>
                    /\ after.circulation_pump_state
                         = SomeSlotInWindow(controller_config.pump_schedules, t)
                    /\ after.heater_state
                         = SomeSlotInWindow(controller_config.heater_schedules, t)
               /\ manual_override =>
                    /\ after.circulation_pump_state = circulation_pump_state
                    /\ after.heater_state = heater_state
               /\ after.gpio[CIRCULATION_PUMP_PIN]
                    = (after.circulation_pump_state \/ after.heater_state)
               /\ after.gpio[HEATER_PIN] = after.heater_state
               /\ after.gpio = online.gpio
               /\ after.circulation_pump_state = online.circulation_pump_state
               /\ after.heater_state = online.heater_state)
  /\ [][\A broker \in BOOLEAN :
          variant = "two_relay" /\ phase = "running"
          /\ Becomes(loop_two_relay(M, broker, <<>>))
            => /\ circulation_pump_state' = circulation_pump_state
               /\ heater_state' = heater_state
               /\ gpio' = gpio]_vars
  /\ [][phase = "running" /\ phase' = "running"
          /\ (wifi_status' # wifi_status \/ (mqtt_connected /\ ~mqtt_connected'))
            => /\ circulation_pump_state' = circulation_pump_state
               /\ heater_state' = heater_state
               /\ gpio' = gpio]_vars

\* the schedule build in normal mode with WiFi down, a reconnect attempt behind it, and
\* the heater on with its slot
C12_Witness ==
  /\ Normal /\ wifi_status # WL_CONNECTED /\ ~manual_override
  /\ connect_attempts # <<>>
  /\ heater_state /\ Heater = HIGH /\ Pump = HIGH

\* the reconnect attempts since the reset lie more than the retry interval apart
AttemptsApart ==
  \A i \in 1..(Len(connect_attempts) - 1) :
    connect_attempts[i + 1] - connect_attempts[i]
      > (IF variant = "schedule" THEN WIFI_RECONNECT_INTERVAL ELSE RECONNECT_INTERVAL)

\* an attempt is made only from a state in which the link (schedule build) or the
\* session (two-relay build) is down
AttemptOnlyWhileDown ==
  phase = "running" /\ phase' = "running" /\ connect_attempts' # connect_attempts
    => /\ connect_attempts' = Append(connect_attempts, millis)
       /\ variant = "schedule" => wifi_status # WL_CONNECTED
       /\ variant = "two_relay" => ~mqtt_connected

\* the retry interval has run out since the last attempt
WifiRetryDue == millis - last_wifi_reconnect_attempt > WIFI_RECONNECT_INTERVAL
MqttRetryDue == millis - last_reconnect_attempt_time > RECONNECT_INTERVAL

\* the pass of loop() from this state makes a reconnect attempt
ScheduleLoopRetries ==
  \A now \in ClockReadings :
    AfterLoop(now).connect_attempts = Append(connect_attempts, millis)
TwoRelayLoopRetries ==
  \A broker \in BOOLEAN :
    loop_two_relay(M, broker, <<>>).connect_attempts = Append(connect_attempts, millis)

\* a retry is due: the schedule build in normal mode with WiFi down, the two-relay build
\* with WiFi up and the session down, the interval run out
RetryDue ==
  \/ Normal /\ wifi_status # WL_CONNECTED /\ WifiRetryDue
  \/ /\ variant = "two_relay" /\ phase = "running"
     /\ wifi_status = WL_CONNECTED /\ ~mqtt_connected /\ MqttRetryDue

(* C13, as amended: reconnection is retried on a fixed interval: two consecutive
   reconnect attempts (WiFi.begin in loop() of the schedule build, client.connect in the
   two-relay build) lie more than 30000 ms apart, no attempt is made while connected,
   and the attempts keep recurring: in the schedule build in normal mode while WiFi is
   down, in the two-relay build while WiFi is up and the session is down, every pass of
   loop() that finds the interval run out makes an attempt, and such a pass comes (a due
   retry does not stay due) *)
C13_ReconnectRetriedOnIntervalWhereRetried ==
  /\ []AttemptsApart
  /\ [][AttemptOnlyWhileDown]_vars
  /\ [](Normal /\ wifi_status # WL_CONNECTED /\ WifiRetryDue => ScheduleLoopRetries)
  /\ [](variant = "two_relay" /\ phase = "running" /\ wifi_status = WL_CONNECTED
          /\ ~mqtt_connected /\ MqttRetryDue => TwoRelayLoopRetries)
  /\ RetryDue ~> ~RetryDue

(* C13 as claimed: the same for as long as the link stays down, whatever the mode of the
   schedule build and whichever of WiFi and the broker session is down in the two-relay
   build *)
C13_ReconnectRetriedOnInterval ==
  /\ []AttemptsApart
  /\ [][AttemptOnlyWhileDown]_vars
  /\ [](variant = "schedule" /\ phase = "running" /\ wifi_status # WL_CONNECTED
          /\ WifiRetryDue => ScheduleLoopRetries)
  /\ [](variant = "two_relay" /\ phase = "running"
          /\ ~mqtt_connected /\ MqttRetryDue => TwoRelayLoopRetries)

\* two attempts since the reset, the second 30001 ms after the first
C13_Witness ==
  /\ phase = "running"
  /\ Len(connect_attempts) >= 2
  /\ connect_attempts[2] - connect_attempts[1] = RECONNECT_INTERVAL + 1

(* C14: thermostat build: while spa_on is false the pump, the external heater, the
   internal heater and the blower are all deasserted, whatever standby_warming,
   fast_heating, circulation_only, blower_requested and the temperatures are *)
C14_SpaOffDeassertsAll ==
  variant = "thermostat" /\ ~controls.spa_on
    => /\ relays = AllDeasserted
       /\ relay_state_evaluator(controls) = AllDeasserted

\* the spa is off with every other flag on and the water far below target
C14_Witness ==
  /\ variant = "thermostat" /\ ~controls.spa_on
  /\ controls.standby_warming /\ controls.fast_heating /\ controls.circulation_only
  /\ controls.blower_requested
  /\ controls.measured_temperature < controls.target_temperature - 100
  /\ relays = AllDeasserted

(* C15: thermostat build: while spa_on and circulation_only are both true, both heaters
   are deasserted and the pump is asserted, however far the measured temperature is
   below the target and whatever standby_warming and fast_heating are *)
C15_CirculationOnlyVetoesHeating ==
  variant = "thermostat" /\ controls.spa_on /\ controls.circulation_only
    => /\ ~relays.external_heater
       /\ ~relays.internal_heater
       /\ relays.pump

\* circulation only, standby warming and fast heating on, the water far below target
C15_Witness ==
  /\ variant = "thermostat" /\ controls.spa_on /\ controls.circulation_only
  /\ controls.standby_warming /\ controls.fast_heating
  /\ controls.measured_temperature < controls.target_temperature - 100
  /\ relays.pump /\ ~relays.external_heater /\ ~relays.internal_heater

\* the statement-level steps compose to the handlers: the pump write followed by the
\* heater write is update_relays(), and likewise for a pass of either loop()
WritesCompose ==
  /\ variant = "schedule" /\ phase = "running" /\ pc = "idle" =>
       \A now \in ClockReadings :
         LET m1 == loop_schedule_pump_write(M, now[1], now[2])
         IN loop_schedule(M, now[1], now[2])
              = IF m1.pc = "idle" THEN m1 ELSE update_relays_heater_write(m1)
  /\ variant = "two_relay" /\ phase = "running" /\ pc = "idle" =>
       \A broker \in BOOLEAN :
         \A inbound \in IF handle_connections(M, broker).mqtt_connected
                        THEN CommandInbound \cup { <<>> } ELSE { <<>> } :
           LET m1 == loop_two_relay_pump_write(M, broker, inbound)
           IN loop_two_relay(M, broker, inbound)
                = IF m1.pc = "idle" THEN m1 ELSE loop_two_relay_resume(m1)

(* C16: in no reachable state, the states between the pump pin write and the heater pin
   write of a relay update included, is the heater pin HIGH while the pump pin is LOW,
   in either build *)
C16_HeaterImpliesPumpBetweenWrites ==
  variant \in {"schedule", "two_relay"} => ~(Heater = HIGH /\ Pump = LOW)

\* POST /control requests without and with the 'schedule' argument
ManualRequests == { r \in ControlRequests : ~hasArg(r, "schedule") }
ResumeRequests == { r \in ControlRequests : hasArg(r, "schedule") }

(* C17: schedule build: a POST /control without 'schedule' leaves manual_override true;
   while it is true a loop() pass, a status-page request and a schedule form post each
   leave it true, and a loop() pass leaves circulation_pump_state and heater_state as
   they are at every clock reading and with every schedule; among the requests only a
   POST /control carrying 'schedule' turns it false *)
C17_ManualOverrideHoldsUntilResume ==
  /\ [](Normal => \A r \in ManualRequests : handle_manual_control(M, r).manual_override)
  /\ [](variant = "schedule" /\ phase = "running" /\ manual_override =>
          /\ \A now \in ClockReadings :
               /\ AfterLoop(now).manual_override
               /\ AfterLoop(now).circulation_pump_state = circulation_pump_state
               /\ AfterLoop(now).heater_state = heater_state
          /\ handle_root(M).manual_override
          /\ \A request \in ScheduleRequests : handle_schedule(M, request).manual_override)
  /\ [][manual_override /\ ~manual_override' =>
          \E r \in ResumeRequests : Becomes(handle_manual_control(M, r))]_vars

\* manual override is on, the status page shows it, a pass of loop() has put the manual
\* request on the pins, and the pump is on by hand at a time all its slots exclude
C17_Witness ==
  /\ Normal /\ manual_override /\ page.override_notice
  /\ circulation_pump_state /\ ~heater_state /\ Pump = HIGH /\ Heater = LOW
  /\ page.pump = bool_to_on_off(TRUE)
  /\ \E i \in SlotIndex : ~Disabled(controller_config.pump_schedules[i])
  /\ \E now \in ClockReadings :
       ~SomeSlotInWindow(controller_config.pump_schedules, now[1] * 60 + now[2])

(* C18: schedule build: a POST /control carrying 'schedule' leaves manual_override false
   whatever 'pump' and 'heater' arguments come with it, and writes no pin; the loop()
   pass that follows sets both requested states from the schedules before
   update_relays() writes the pins, so the pins carry the schedule-derived states and
   not the ones the request set *)
C18_ResumeDiscardsManualState ==
  /\ [](Normal =>
          \A r \in ResumeRequests :
            LET resumed == handle_manual_control(M, r)
            IN /\ ~resumed.manual_override
               /\ resumed.gpio = gpio
               /\ \A now \in ClockReadings :
                    LET next == loop_schedule(resumed, now[1], now[2])
                        t == now[1] * 60 + now[2]
                        pump_due == SomeSlotInWindow(controller_config.pump_schedules, t)
                        heater_due == SomeSlotInWindow(controller_config.heater_schedules, t)
                    IN /\ next.circulation_pump_state = pump_due
                       /\ next.heater_state = heater_due
                       /\ next.gpio[HEATER_PIN] = (IF heater_due THEN HIGH ELSE LOW)
                       /\ next.gpio[CIRCULATION_PUMP_PIN]
                            = (IF pump_due \/ heater_due THEN HIGH ELSE LOW))
  /\ [][(\E r \in ResumeRequests : Becomes(handle_manual_control(M, r)))
          => ~manual_override' /\ gpio' = gpio]_vars

\* scheduling was resumed by a request that also asked for the pump: the request is set,
\* the pin is not, and no slot of either device is enabled
C18_Witness ==
  /\ Normal /\ ~manual_override
  /\ circulation_pump_state /\ Pump = LOW /\ Heater = LOW
  /\ \A i \in SlotIndex : /\ Disabled(controller_config.pump_schedules[i])
                           /\ Disabled(controller_config.heater_schedules[i])

\* the boot of a streak on which setup() wipes the store, by the counter byte the first
\* boot of the streak found: the first boot whose incremented byte is 5 or more
WipingBoot(base) ==
  IF base < RESET_CYCLE_TARGET - 1 THEN RESET_CYCLE_TARGET - base
  ELSE IF base = EEPROM_SIZE - 1 THEN RESET_CYCLE_TARGET + 1
  ELSE 1

\* loop() would clear the counter byte in its next pass
ClearDue == ~reset_counter_cleared /\ millis - boot_time > SUCCESSFUL_BOOT_TIMEOUT_MS

\* no boot runs past the boot on which its streak is wiped, and every wipe came on it
WipedOnWipingBoot ==
  /\ phase = "running" => boot_streak.boots < WipingBoot(boot_streak.base)
  /\ boot_streak.wiped_on # 0 => boot_streak.wiped_on = WipingBoot(boot_streak.wiped_base)

\* a pass of loop() writes the counter byte 0 when the boot has lasted more than 20000 ms
\* and has not done so yet, in config mode too, and leaves the byte alone otherwise
ClearedOncePerBoot ==
  variant = "schedule" /\ phase = "running" =>
    /\ \A now \in ClockReadings :
         /\ AfterLoop(now).EEPROM[RESET_EEPROM_ADDR]
              = (IF ClearDue THEN 0 ELSE EEPROM[RESET_EEPROM_ADDR])
         /\ AfterLoop(now).reset_counter_cleared = (reset_counter_cleared \/ ClearDue)
    /\ reset_counter_cleared => EEPROM[RESET_EEPROM_ADDR] = 0

\* the boot after a wipe is not wiped, writes the counter byte 1 and loads the defaults
BootAfterWipe ==
  variant = "schedule" /\ phase = "reset" /\ boot_streak.wiped_on # 0 /\ boot_streak.boots = 0 =>
    /\ EEPROM[RESET_EEPROM_ADDR] = 0
    /\ \A link \in BOOLEAN :
         LET m == setup_schedule(M, link)
         IN /\ m.phase = "running"
            /\ m.EEPROM[RESET_EEPROM_ADDR] = 1
            /\ m.controller_config = ExpectedDefaults

(* C19: schedule build: setup() wipes the store and restarts on the first boot of a streak
   whose incremented counter byte is 5 or more, a streak being the boots since loop() or
   a wipe last wrote the byte 0: the fifth boot when the streak began at byte 0, the
   sixth from an erased byte (255), the first from a byte 4 to 254; a pass of loop() more
   than 20000 ms after boot_time writes the byte 0, once per boot, in config mode too;
   the boot after a wipe starts from byte 0, is not wiped and loads the defaults *)
C19_WipeOnFifthBootFromZero ==
  WipedOnWipingBoot /\ ClearedOncePerBoot /\ BootAfterWipe

(* C19 as claimed: the wipe comes exactly on the fifth consecutive boot none of whose
   four predecessors cleared the counter, so no boot runs as the fifth or later of its
   streak and every wipe came on a fifth boot *)
C19_WipeExactlyOnFifthBoot ==
  /\ phase = "running" => boot_streak.boots < RESET_CYCLE_TARGET
  /\ boot_streak.wiped_on \in {0, RESET_CYCLE_TARGET}
  /\ ClearedOncePerBoot
  /\ BootAfterWipe

\* the store was wiped on the fifth boot of a streak that began at byte 0, and the boot
\* after the wipe runs in config mode on the defaults with the counter byte at 1
C19_Witness ==
  /\ variant = "schedule" /\ phase = "running" /\ in_config_mode
  /\ boot_streak.wiped_on = RESET_CYCLE_TARGET /\ boot_streak.wiped_base = 0
  /\ boot_streak.boots = 1 /\ EEPROM[RESET_EEPROM_ADDR] = 1
  /\ controller_config = ExpectedDefaults

(* C20: schedule build: setup() increments the stored counter byte modulo 256: from 255
   it goes on with the byte 0 and wipes nothing; from each byte 0 to 255, setup() either
   wipes the store (bytes 4 to 254) or goes on and writes back the byte plus one modulo
   256, a value in 0..4; a running device never holds a counter byte outside 0..4 *)
C20_CounterWrapsAndStaysBelowTarget ==
  /\ variant = "schedule" /\ phase = "reset" =>
       \A link \in BOOLEAN :
         LET stored == EEPROM[RESET_EEPROM_ADDR]
             m == setup_schedule(M, link)
         IN IF stored \in (RESET_CYCLE_TARGET - 1)..(EEPROM_SIZE - 2)
            THEN m.phase = "reset" /\ m.EEPROM[CONFIG_EEPROM_ADDR] = WipedRecord
            ELSE /\ m.phase = "running"
                 /\ m.EEPROM[RESET_EEPROM_ADDR] = (stored + 1) % 256
                 /\ m.EEPROM[RESET_EEPROM_ADDR] \in 0..(RESET_CYCLE_TARGET - 1)
                 /\ stored = EEPROM_SIZE - 1 => m.EEPROM[RESET_EEPROM_ADDR] = 0
  /\ variant = "schedule" /\ phase = "running" =>
       EEPROM[RESET_EEPROM_ADDR] \in 0..(RESET_CYCLE_TARGET - 1)

\* the first boot from an erased counter byte: the byte is 0, nothing was wiped, and the
\* saved record is still in the store
C20_Witness ==
  /\ variant = "schedule" /\ phase = "running" /\ ~reset_counter_cleared
  /\ boot_streak.base = EEPROM_SIZE - 1 /\ boot_streak.boots = 1
  /\ boot_streak.wiped_on = 0
  /\ EEPROM[RESET_EEPROM_ADDR] = 0
  /\ EEPROM[CONFIG_EEPROM_ADDR] = SavedRecord

\* both relay pins are LOW
BothLow == Pump = LOW /\ Heater = LOW

ConfigMode == variant = "schedule" /\ phase = "running" /\ in_config_mode

(* C21: both builds: the pins are LOW from the reset through setup(), which writes both
   LOW. Schedule build: setup() ends in config mode exactly when the loaded SSID is
   empty or WiFi has not connected after the 20 polls; in_config_mode does not change
   between restarts; in config mode a pass of loop() writes no pin and leaves both
   requested states, so both pins are LOW for as long as the device is in config mode *)
C21_LowFromBootAndInConfigMode ==
  /\ [](phase = "reset" =>
          /\ BothLow
          /\ \A link \in BOOLEAN :
               /\ variant = "two_relay" =>
                    setup_two_relay(M, link).gpio = [p \in DOMAIN gpio |-> LOW]
               /\ variant = "schedule" =>
                    LET m == setup_schedule(M, link)
                    IN /\ m.gpio = [p \in DOMAIN gpio |-> LOW]
                       /\ m.phase = "running" =>
                            (m.in_config_mode <=>
                               Len(m.controller_config.wifi.ssid) = 0 \/ ~link))
  /\ [](ConfigMode =>
          /\ BothLow /\ ~circulation_pump_state /\ ~heater_state
          /\ \A now \in ClockReadings :
               /\ AfterLoop(now).gpio = gpio
               /\ AfterLoop(now).circulation_pump_state = circulation_pump_state
               /\ AfterLoop(now).heater_state = heater_state
               /\ AfterLoop(now).in_config_mode)
  /\ [][variant = "schedule" /\ phase = "running" /\ phase' = "running"
          => in_config_mode' = in_config_mode]_vars
  /\ [][phase = "reset" => gpio' = gpio]_vars

\* config mode with an SSID stored (WiFi did not connect), loop() has run long enough to
\* clear the boot counter, a heater slot is in its window at some reading, the pins are LOW
C21_Witness ==
  /\ ConfigMode /\ reset_counter_cleared
  /\ Len(controller_config.wifi.ssid) > 0
  /\ \E now \in ClockReadings :
       SomeSlotInWindow(controller_config.heater_schedules, now[1] * 60 + now[2])
  /\ BothLow

\* a published message
Message(topic, payload) == [topic |-> topic, payload |-> payload]

Online == Message(MQTT_AVAILABILITY_TOPIC, <<"o", "n", "l", "i", "n", "e">>)

\* the two-relay build is about to try the broker: WiFi up, session down, interval run out
ConnectDue ==
  /\ variant = "two_relay" /\ phase = "running"
  /\ wifi_status = WL_CONNECTED /\ ~mqtt_connected /\ MqttRetryDue

\* what a successful connect does, the pump report being pump_report: online is published
\* first, both set topics are subscribed, the pins are written from the requests, which
\* stay, the two reports follow, and a command of the same pass is handled after them
ConnectSyncs(pump_report) ==
  LET connected == handle_connections([M EXCEPT !.published = <<>>], TRUE)
      synced == << Online,
                   Message(MQTT_CIRCULATION_PUMP_STATE_TOPIC, bool_to_on_off(pump_report)),
                   Message(MQTT_HEATER_STATE_TOPIC, bool_to_on_off(heater_state)) >>
  IN /\ connected.mqtt_connected
     /\ connected.published = synced
     /\ connected.subscriptions = {MQTT_CIRCULATION_PUMP_SET_TOPIC, MQTT_HEATER_SET_TOPIC}
     /\ connected.circulation_pump_state = circulation_pump_state
     /\ connected.heater_state = heater_state
     /\ connected.gpio[CIRCULATION_PUMP_PIN]
          = (IF circulation_pump_state \/ heater_state THEN HIGH ELSE LOW)
     /\ connected.gpio[HEATER_PIN] = (IF heater_state THEN HIGH ELSE LOW)
     /\ \A inbound \in CommandInbound :
          LET pass == loop_two_relay(M, TRUE, inbound)
          IN /\ Len(pass.published) >= 5
             /\ SubSeq(pass.published, 1, 3) = synced
             /\ pass.received = <<inbound[1], inbound[2]>>

\* a failed connect leaves the requests, the pins, the session and the subscriptions, and
\* publishes nothing; no message reaches the device while the session is down
FailedConnectChangesNothing ==
  LET failed == handle_connections(M, FALSE)
  IN /\ ~failed.mqtt_connected
     /\ failed.circulation_pump_state = circulation_pump_state
     /\ failed.heater_state = heater_state
     /\ failed.gpio = gpio
     /\ failed.published = published
     /\ failed.subscriptions = subscriptions
     /\ failed.connect_attempts = Append(connect_attempts, millis)

\* the step in which the session comes up publishes online first and subscribes both
\* set topics
SessionUpStep ==
  variant = "two_relay" /\ ~mqtt_connected /\ mqtt_connected' =>
    /\ Len(published') >= 3
    /\ published'[1] = Online
    /\ {MQTT_CIRCULATION_PUMP_SET_TOPIC, MQTT_HEATER_SET_TOPIC} \subseteq subscriptions'

(* C22: two-relay build: a successful MQTT connect publishes online on the availability
   topic, subscribes to the pump-set and heater-set topics, writes the pins from the
   current requested states and publishes the states written - the pump report is the
   forced pump state - all before a command is handled; a failed attempt changes no
   requested state and no pin *)
C22_ConnectSyncsOutputs ==
  /\ [](ConnectDue =>
          /\ ConnectSyncs(circulation_pump_state \/ heater_state)
          /\ FailedConnectChangesNothing)
  /\ [][SessionUpStep]_vars

(* C22 as claimed: the states published on a connect are the requested ones *)
C22_ConnectPublishesRequested ==
  /\ [](ConnectDue =>
          /\ ConnectSyncs(circulation_pump_state)
          /\ FailedConnectChangesNothing)
  /\ [][SessionUpStep]_vars

\* a second connect, after the session was lost with the heater requested and the pump
\* not: online, pump ON and heater ON were published, and both pins are HIGH
C22_Witness ==
  /\ variant = "two_relay" /\ mqtt_connected
  /\ Len(connect_attempts) >= 2
  /\ connect_attempts[Len(connect_attempts)] = millis
  /\ heater_state /\ ~circulation_pump_state
  /\ published = << Online,
                    Message(MQTT_CIRCULATION_PUMP_STATE_TOPIC, <<"O", "N">>),
                    Message(MQTT_HEATER_STATE_TOPIC, <<"O", "N">>) >>
  /\ Pump = HIGH /\ Heater = HIGH

SetTopics == {MQTT_CIRCULATION_PUMP_SET_TOPIC, MQTT_HEATER_SET_TOPIC}

\* the two reports update_relays_and_publish_states sends for the current requests
CurrentReports ==
  << Message(MQTT_CIRCULATION_PUMP_STATE_TOPIC,
             bool_to_on_off(circulation_pump_state \/ heater_state)),
     Message(MQTT_HEATER_STATE_TOPIC, bool_to_on_off(heater_state)) >>

\* the callback applied to a message in the current state: a set topic leaves the other
\* request, any other topic leaves both requests and the pins and sends the two reports
CallbackFrame(topic, payload) ==
  LET after == mqtt_callback(M, topic, payload, Len(payload))
  IN /\ topic = MQTT_CIRCULATION_PUMP_SET_TOPIC => after.heater_state = heater_state
     /\ topic = MQTT_HEATER_SET_TOPIC =>
          after.circulation_pump_state = circulation_pump_state
     /\ topic \notin SetTopics =>
          /\ after.circulation_pump_state = circulation_pump_state
          /\ after.heater_state = heater_state
          /\ after.gpio = gpio
          /\ after.published = published \o CurrentReports

(* C23: two-relay build: a message on the pump-set topic never changes heater_state, a
   message on the heater-set topic never changes circulation_pump_state, and a message
   on any other topic changes neither request: it writes the pins to the levels they
   have and publishes the two state reports again *)
C23_MessageChangesOnlyItsOwnRequest ==
  /\ [](variant = "two_relay" /\ phase = "running" /\ mqtt_connected =>
          \A inbound \in CommandInbound : CallbackFrame(inbound[1], inbound[2]))
  /\ [][\A broker \in BOOLEAN, inbound \in CommandInbound :
          TwoRelayPass(broker, inbound) =>
            /\ inbound[1] # MQTT_HEATER_SET_TOPIC => heater_state' = heater_state
            /\ inbound[1] # MQTT_CIRCULATION_PUMP_SET_TOPIC =>
                 circulation_pump_state' = circulation_pump_state
            /\ inbound[1] \notin SetTopics =>
                 /\ gpio' = gpio
                 /\ Len(published') >= 2
                 /\ SubSeq(published', Len(published') - 1, Len(published'))
                      = CurrentReports]_vars

\* a message on the debug topic was handled while the heater was requested and the pump
\* was not: the requests stand, both pins are HIGH, and the reports were sent again
C23_Witness ==
  /\ variant = "two_relay" /\ mqtt_connected
  /\ received = <<MQTT_DEBUG_TOPIC, <<"O", "F", "F">> >>
  /\ heater_state /\ ~circulation_pump_state
  /\ Pump = HIGH /\ Heater = HIGH
  /\ published = CurrentReports

\* nothing has come in, nothing is published, no request is set and both pins are LOW
Quiet ==
  /\ received = <<>> /\ published = <<>>
  /\ ~circulation_pump_state /\ ~heater_state
  /\ BothLow

\* setup leaves the session down, the reconnect timestamp 0 and the device quiet
SetupLeavesSessionDown ==
  variant = "two_relay" /\ phase = "reset" =>
    \A link \in BOOLEAN :
      LET booted == setup_two_relay(M, link)
      IN /\ ~booted.mqtt_connected /\ booted.subscriptions = {}
         /\ booted.last_reconnect_attempt_time = 0
         /\ booted.connect_attempts = <<>>
         /\ booted.received = <<>> /\ booted.published = <<>>
         /\ ~booted.circulation_pump_state /\ ~booted.heater_state
         /\ booted.gpio[CIRCULATION_PUMP_PIN] = LOW /\ booted.gpio[HEATER_PIN] = LOW

\* up to 30000 ms after boot no connect is tried, whatever the broker would answer, and
\* the first attempt of a boot is later than that
FirstAttemptAfterInterval ==
  variant = "two_relay" /\ phase = "running" =>
    /\ connect_attempts # <<>> => connect_attempts[1] > RECONNECT_INTERVAL
    /\ connect_attempts = <<>> => ~mqtt_connected /\ Quiet
    /\ millis <= RECONNECT_INTERVAL =>
         /\ connect_attempts = <<>>
         /\ \A broker \in BOOLEAN, inbound \in CommandInbound \cup {<<>>} :
              LET pass == loop_two_relay(M, broker, inbound)
              IN ~pass.mqtt_connected /\ pass.connect_attempts = <<>>

\* a step that starts and ends with the session down delivers no command, publishes
\* nothing and leaves the requests and the pins
DownStaysQuiet ==
  /\ variant = "two_relay" /\ phase = "running" /\ phase' = "running"
  /\ ~mqtt_connected /\ ~mqtt_connected'
  => /\ received' = received
     /\ published' = <<>> \/ published' = published
     /\ circulation_pump_state' = circulation_pump_state
     /\ heater_state' = heater_state
     /\ gpio' = gpio

(* C24: two-relay build: setup never connects to the broker and the reconnect timestamp
   starts at 0, so the first connect attempt of a boot is made only once millis() is
   above 30000; from setup on, as long as no connect has succeeded, no command is
   received, nothing is published and both pins stay LOW *)
C24_NoSessionBeforeFirstConnect ==
  /\ [](SetupLeavesSessionDown /\ FirstAttemptAfterInterval)
  /\ [][DownStaysQuiet]_vars

\* two attempts of this boot have failed, the first one at 30001 ms: the session is
\* down, nothing came in or went out, and both pins are LOW
C24_Witness ==
  /\ variant = "two_relay" /\ phase = "running" /\ wifi_status = WL_CONNECTED
  /\ Len(connect_attempts) = 2
  /\ connect_attempts[1] = RECONNECT_INTERVAL + 1
  /\ ~mqtt_connected
  /\ Quiet

====
